---- MODULE Spec2Model ----
(***************************************************************************)
(* A model of sparkFigure4.ipynb: the SENSE / wave-SENSE encoding          *)
(* operators, the SPARK reformatter, the correction loop and the ACS       *)
(* replacement, for the cartesian and the wave-encoded experiment.         *)
(*                                                                         *)
(* Arrays are records [shape |-> <<d1,..,dk>>, val |-> f] where f maps     *)
(* every 0-based index tuple of the shape to a value (numpy's row-major    *)
(* arrays).  Floating-point values are modelled exactly, as extended       *)
(* rationals <<n, d>>: d > 0 is the fraction n/d in lowest terms,          *)
(* <<1,0>> is +inf, <<-1,0>> is -inf and <<0,0>> is nan (IEEE-754          *)
(* arithmetic without rounding).                                           *)
(***************************************************************************)
EXTENDS Integers, Sequences, FiniteSets, TLC

----------------------------------------------------------------------------
(* Bounds of the model *)

\* channels C range over 1..MaxC
MaxC == 2
\* native readout length M ranges over 1..MaxM
MaxM == 2
\* multi-band factor numslices ranges over 1..MaxSlices
MaxSlices == 2
\* phase-encode length N ranges over 1..MaxN
MaxN == 3
\* ACS size acsy ranges over 1..MaxAcsy
MaxAcsy == 4
\* readout oversampling factor os ranges over 1..MaxOs
MaxOs == 2

----------------------------------------------------------------------------
(* Floating-point numbers as extended rationals *)

Abs(n) == IF n < 0 THEN -n ELSE n

Sgn(n) == IF n < 0 THEN -1 ELSE IF n = 0 THEN 0 ELSE 1

RECURSIVE GCD(_, _)
GCD(a, b) == IF b = 0 THEN a ELSE GCD(b, a % b)

\* the canonical form of the fraction n/d (d = 0: an infinity or nan)
QNorm(n, d) ==
    IF d = 0 THEN <<Sgn(n), 0>>
    ELSE LET g == GCD(Abs(n), Abs(d))
             s == IF d < 0 THEN -1 ELSE 1
         IN  <<(s * n) \div g, (s * d) \div g>>

QInt(n) == <<n, 1>>
QInf == <<1, 0>>
QNaN == <<0, 0>>

QFinite(q) == q[2] # 0

\* the greatest common divisor of |a| and |b|, one when both are zero
Common(a, b) == LET g == GCD(Abs(a), Abs(b)) IN IF g = 0 THEN 1 ELSE g

\* (common factors are cancelled before multiplying, to keep the products small)
QMul(a, b) ==
    LET g == Common(a[1], b[2])
        h == Common(b[1], a[2])
    IN  QNorm((a[1] \div g) * (b[1] \div h), (a[2] \div h) * (b[2] \div g))

\* a / b: x/0 is an infinity, 0/0 and inf/inf are nan, x/inf is 0
QDiv(a, b) == QMul(a, <<b[2] * Sgn(IF b[1] = 0 THEN 1 ELSE b[1]), Abs(b[1])>>)

QAdd(a, b) ==
    IF a[2] = 0 /\ b[2] = 0
    THEN (IF a[1] = b[1] THEN a ELSE QNaN)
    ELSE LET g == Common(a[2], b[2])
         IN  QNorm(a[1] * (b[2] \div g) + b[1] * (a[2] \div g), (a[2] \div g) * b[2])

QSub(a, b) == QAdd(a, <<-b[1], b[2]>>)

QAbs(a) == <<Abs(a[1]), a[2]>>

\* a <= b for finite a, b
QLeq(a, b) == a[1] * b[2] <= b[1] * a[2]

\* np.amax over a non-empty set of finite values
QMax(S) == CHOOSE m \in S : \A q \in S : QLeq(q, m)

\* complex numbers are pairs <<re, im>> of extended rationals
CInt(re, im) == <<QInt(re), QInt(im)>>
CAdd(a, b) == <<QAdd(a[1], b[1]), QAdd(a[2], b[2])>>
CSub(a, b) == <<QSub(a[1], b[1]), QSub(a[2], b[2])>>
CFinite(a) == QFinite(a[1]) /\ QFinite(a[2])

----------------------------------------------------------------------------
(* numpy arrays: shapes, index tuples, slices *)

RECURSIVE Prod(_)
Prod(shape) == IF shape = <<>> THEN 1 ELSE Head(shape) * Prod(Tail(shape))

\* all 0-based index tuples of a shape
RECURSIVE Idx(_)
Idx(shape) ==
    IF shape = <<>> THEN {<<>>}
    ELSE LET rest == Idx(Tail(shape))
         IN  {<<i>> \o t : i \in 0..(Head(shape) - 1), t \in rest}

\* (the comparison makes TLC tabulate the values once, when the array is built,
\* instead of recomputing an element at every read)
Arr(shape, f) == [shape |-> shape, val |-> IF f = f THEN f ELSE f]

\* np.arange(lo, hi)
arange(lo, hi) == [k \in 1..(IF hi > lo THEN hi - lo ELSE 0) |-> lo + k - 1]

\* seq[k] with Python's 0-based index, negative k counting from the end
PyIndexOk(seq, k) ==
    LET kk == IF k < 0 THEN k + Len(seq) ELSE k
    IN  kk >= 0 /\ kk < Len(seq)

PyIndex(seq, k) == seq[(IF k < 0 THEN k + Len(seq) ELSE k) + 1]

\* one bound of a Python slice on an axis of length n
PyClamp(b, n) ==
    LET bb == IF b < 0 THEN b + n ELSE b
    IN  IF bb < 0 THEN 0 ELSE IF bb > n THEN n ELSE bb

\* the axis indices selected by a[start:stop] on an axis of length n
PySlice(start, stop, n) ==
    LET s == PyClamp(start, n)
        e == PyClamp(stop, n)
    IN  [k \in 1..(IF e > s THEN e - s ELSE 0) |-> s + k - 1]

\* row-major position of an index tuple
RECURSIVE FlatFrom(_, _, _)
FlatFrom(shape, t, k) ==
    IF k = 0 THEN 0 ELSE FlatFrom(shape, t, k - 1) * shape[k] + t[k]

Flat(shape, t) == FlatFrom(shape, t, Len(shape))

\* number of elements one step along axis k spans
RECURSIVE Stride(_, _)
Stride(shape, k) == IF k >= Len(shape) THEN 1 ELSE shape[k + 1] * Stride(shape, k + 1)

\* the index tuple at row-major position p
Unflat(shape, p) == [k \in 1..Len(shape) |-> (p \div Stride(shape, k)) % shape[k]]

\* np.reshape to a shape of the same size (np.squeeze and np.expand_dims are
\* reshapes: they keep the row-major order)
Reshape(a, shape) ==
    Arr(shape, [t \in Idx(shape) |-> a.val[Unflat(a.shape, Flat(shape, t))]])

\* np.squeeze: every axis of length one is dropped
squeeze(a) == Reshape(a, SelectSeq(a.shape, LAMBDA d : d # 1))

\* np.expand_dims(a, axis = 0)
expand_dims0(a) == Reshape(a, <<1>> \o a.shape)

\* an array that was never assigned
NoArr == Arr(<<0>>, <<>>)

----------------------------------------------------------------------------
(* The SPARK data reformatter *)

\* acsregionX / acsregionY: np.arange(center - acs // 2, center + acs // 2)
acsregion(extent, acs) == arange(extent \div 2 - acs \div 2, extent \div 2 + acs \div 2)

\* the axis indices of a[region[0] : region[acs - 1] + 1], the cropping window
CropWindow(region, acs, n) ==
    PySlice(PyIndex(region, 0), PyIndex(region, acs - 1) + 1, n)

\* 1 / np.amax(np.abs(.)) over the set S of the slice's values
ScaleFactor(S) == QDiv(QInt(1), QMax({QAbs(q) : q \in S}))

\* what reformattingKspaceForSpark raises, "none" when it returns
ReformatError(inputKspace, kspaceOriginal, regionX, regionY, ax, ay, flag) ==
    IF Len(inputKspace.shape) # 4 THEN "ValueError"
    ELSE IF ~(PyIndexOk(regionX, 0) /\ PyIndexOk(regionX, ax - 1)
              /\ PyIndexOk(regionY, 0) /\ PyIndexOk(regionY, ay - 1))
    THEN "IndexError"
    ELSE IF flag = 1
            /\ (Len(CropWindow(regionX, ax, inputKspace.shape[3])) = 0
                \/ Len(CropWindow(regionY, ay, inputKspace.shape[4])) = 0)
    THEN "ValueError"
    ELSE "none"

\* what reformattingKspaceForSpark returns when it raises nothing
reformattingKspaceForSpark(inputKspace, kspaceOriginal, regionX, regionY, ax, ay, flag) ==
    LET E == inputKspace.shape[1]
        Cn == inputKspace.shape[2]
        X == inputKspace.shape[3]
        Y == inputKspace.shape[4]
        rows == CropWindow(regionX, ax, X)
        cols == CropWindow(regionY, ay, Y)
        h == Len(rows)
        w == Len(cols)
        \* kspaceAcsDifference = kspaceAcsCrop - kspaceAcsGrappa
        diff == [t \in Idx(<<E, Cn, h, w>>) |->
                    CSub(kspaceOriginal.val[<<t[1], t[2], rows[t[3] + 1], cols[t[4] + 1]>>],
                         inputKspace.val[<<t[1], t[2], rows[t[3] + 1], cols[t[4] + 1]>>])]
        \* kspace_grappa_split: real parts of all channels, then imaginary parts
        split == [t \in Idx(<<E, 2 * Cn, X, Y>>) |->
                    IF t[2] < Cn THEN inputKspace.val[t][1]
                    ELSE inputKspace.val[<<t[1], t[2] - Cn, t[3], t[4]>>][2]]
        scale_factor_input == [e \in 0..(E - 1) |->
            IF flag = 1
            THEN ScaleFactor({split[t] : t \in {u \in Idx(<<E, 2 * Cn, X, Y>>) : u[1] = e}})
            ELSE QInt(1)]
        part(e, c, k) == {diff[t][k] : t \in {u \in Idx(<<E, Cn, h, w>>) : u[1] = e /\ u[2] = c}}
        sr == [t \in Idx(<<E, Cn>>) |->
                 IF flag = 1 THEN ScaleFactor(part(t[1], t[2], 1)) ELSE QInt(1)]
        si == [t \in Idx(<<E, Cn>>) |->
                 IF flag = 1 THEN ScaleFactor(part(t[1], t[2], 2)) ELSE QInt(1)]
    IN  [kspace_grappa_split |->
            Arr(<<E, 2 * Cn, X, Y>>,
                [t \in Idx(<<E, 2 * Cn, X, Y>>) |-> QMul(split[t], scale_factor_input[t[1]])]),
         acs_difference_real |->
            Arr(<<E, Cn, 1, 1, h, w>>,
                [t \in Idx(<<E, Cn, 1, 1, h, w>>) |->
                    QMul(diff[<<t[1], t[2], t[5], t[6]>>][1], sr[<<t[1], t[2]>>])]),
         acs_difference_imag |->
            Arr(<<E, Cn, 1, 1, h, w>>,
                [t \in Idx(<<E, Cn, 1, 1, h, w>>) |->
                    QMul(diff[<<t[1], t[2], t[5], t[6]>>][2], si[<<t[1], t[2]>>])]),
         chan_scale_factors_real |-> Arr(<<E, Cn>>, sr),
         chan_scale_factors_imag |-> Arr(<<E, Cn>>, si)]

\* a variant in which the difference is computed in place, into kspaceAcsCrop
ReformatViewsInPlace(name) ==
    CASE name = "kspaceAcsCrop" -> "kspaceOriginal"
      [] name = "kspaceAcsGrappa" -> "inputKspace"
      [] name = "kspaceAcsDifference" -> "kspaceAcsCrop"
      [] name \in {"acs_difference_real", "acs_difference_imag"} -> "kspaceAcsDifference"
      [] name \in {"kspace_grappa_real", "kspace_grappa_imag"} -> "kspace_grappa"
      [] OTHER -> name

\* The array each array of the function shares its memory with: a slice and
\* np.real / np.imag are views of their operand, while the binary minus,
\* np.copy and np.concatenate allocate (the name then stands for itself).
ReformatViews(name) ==
    CASE name = "kspaceAcsCrop" -> "kspaceOriginal"
      [] name = "kspaceAcsGrappa" -> "inputKspace"
      [] name = "kspaceAcsDifference" -> "kspaceAcsDifference"
      [] name \in {"acs_difference_real", "acs_difference_imag"} -> "kspaceAcsDifference"
      [] name \in {"kspace_grappa_real", "kspace_grappa_imag"} -> "kspace_grappa"
      [] OTHER -> name

\* the buffer an array's elements live in
RECURSIVE ReformatBuffer(_)
ReformatBuffer(name) ==
    IF ReformatViews(name) = name THEN name ELSE ReformatBuffer(ReformatViews(name))

\* k-space a after acs_difference_real[e,c,:,:] *= ... and acs_difference_imag[e,c,:,:]
\* *= ... were written through to its ACS window
WindowOverwritten(a, r, rows, cols) ==
    LET at(seq, x) == (CHOOSE k \in 1..Len(seq) : seq[k] = x) - 1
    IN  Arr(a.shape,
            [t \in Idx(a.shape) |->
                IF t[3] \in {rows[k] : k \in 1..Len(rows)} /\ t[4] \in {cols[k] : k \in 1..Len(cols)}
                THEN <<r.acs_difference_real.val[<<t[1], t[2], 0, 0, at(rows, t[3]), at(cols, t[4])>>],
                       r.acs_difference_imag.val[<<t[1], t[2], 0, 0, at(rows, t[3]), at(cols, t[4])>>]>>
                ELSE a.val[t]])

\* k-space a after kspace_grappa_split[e,:,:,:] *= scale_factor_input was
\* written through to it
InputOverwritten(a, r) ==
    Arr(a.shape,
        [t \in Idx(a.shape) |->
            <<r.kspace_grappa_split.val[t],
              r.kspace_grappa_split.val[<<t[1], t[2] + a.shape[2], t[3], t[4]>>]>>])

\* the caller's two arrays after the call: those whose buffer one of the
\* in-place multiplications writes hold the written values
ArgumentsAfterReformat(inputKspace, kspaceOriginal, regionX, regionY, ax, ay, flag) ==
    LET r == reformattingKspaceForSpark(inputKspace, kspaceOriginal, regionX, regionY, ax, ay, flag)
        rows == CropWindow(regionX, ax, inputKspace.shape[3])
        cols == CropWindow(regionY, ay, inputKspace.shape[4])
        after(name, a) ==
            IF ReformatBuffer("kspace_grappa_split") = name THEN InputOverwritten(a, r)
            ELSE IF ReformatBuffer("acs_difference_real") = name
                    \/ ReformatBuffer("acs_difference_imag") = name
            THEN WindowOverwritten(a, r, rows, cols)
            ELSE a
    IN  IF ReformatError(inputKspace, kspaceOriginal, regionX, regionY, ax, ay, flag) # "none"
        THEN [inputKspace |-> inputKspace, kspaceOriginal |-> kspaceOriginal]
        ELSE [inputKspace |-> after("inputKspace", inputKspace),
              kspaceOriginal |-> after("kspaceOriginal", kspaceOriginal)]

----------------------------------------------------------------------------
(* The SPARK models, the correction applier and the ACS replacement *)

\* str(n) of a non-negative integer: its decimal digits, as a sequence of
\* characters
DigitChar(d) == <<"0", "1", "2", "3", "4", "5", "6", "7", "8", "9">>[d + 1]

RECURSIVE str(_)
str(n) == IF n < 10 THEN <<DigitChar(n)>> ELSE str(n \div 10) \o <<DigitChar(n % 10)>>

\* a variant of the key that leaves the contrast out
ModelNameOfChannel(e, c, comp) ==
    <<"m", "o", "d", "e", "l", "C">> \o str(c) \o <<comp>>

\* the dictionary key 'model' + 'E' + str(e) + 'C' + str(c) + 'r' (or 'i'), as a
\* sequence of characters
ModelName(e, c, comp) ==
    <<"m", "o", "d", "e", "l", "E">> \o str(e) \o <<"C">> \o str(c) \o <<comp>>

\* What a trained network returns for one k-space position.  The weights a
\* training run ends with are not determined by the notebook; "fit" stands
\* for one outcome: "zero" (the network outputs 0 everywhere), "unit" (1
\* everywhere) or "mixed" (a value that differs per channel, component and
\* position).
SparkNetValue(fit, c, comp, i, j) ==
    IF fit = "zero" THEN QInt(0)
    ELSE IF fit = "unit" THEN QInt(1)
    ELSE QInt(1 + c + i + 2 * j + (IF comp = "i" THEN 3 ELSE 0))

\* a trained model: its name, the targets it was trained against and the
\* full-size map model(input)[0][0, 0, :, :]
SparkNet(fit, e, c, comp, target) == [name |-> ModelName(e, c, comp), fit |-> fit, c |-> c, comp |-> comp, target |-> target]

SparkNetOutput(model, X, Y) ==
    Arr(<<X, Y>>, [t \in Idx(<<X, Y>>) |->
                      SparkNetValue(model.fit, model.c, model.comp, t[1], t[2])])

\* trainingSparkNetwork: one model per (contrast, channel) and component
trainingSparkNetwork(acsDifference, comp, fit) ==
    LET E == acsDifference.shape[1]
        Cn == acsDifference.shape[2]
        \* real_models.update({model_name : model}) in loop order: the last model
        \* stored under a name is the one the dictionary keeps
        last(name) == CHOOSE ec \in (0..(E - 1)) \X (0..(Cn - 1)) :
                         /\ ModelName(ec[1], ec[2], comp) = name
                         /\ \A o \in (0..(E - 1)) \X (0..(Cn - 1)) :
                               ModelName(o[1], o[2], comp) = name
                                  => o[1] * Cn + o[2] <= ec[1] * Cn + ec[2]
    IN  [name \in {ModelName(e, c, comp) : e \in 0..(E - 1), c \in 0..(Cn - 1)} |->
            SparkNet(fit, last(name)[1], last(name)[2], comp, acsDifference)]

\* 1j * x for a real x cast to complex: (0 + 1j) * (x + 0j)
TimesJ(x) == <<QSub(QMul(QInt(0), x), QMul(QInt(1), QInt(0))),
               QAdd(QMul(QInt(0), QInt(0)), QMul(QInt(1), x))>>

\* applySparkCorrection: correctionr / scale + 1j * correctioni / scale + kspaceToCorrect
applySparkCorrection(kspaceToCorrect, correctionr, correctioni, chanScaleFactorReal, chanScaleFactorImag) ==
    Arr(kspaceToCorrect.shape,
        [t \in Idx(kspaceToCorrect.shape) |->
            CAdd(CAdd(<<QDiv(correctionr.val[t], chanScaleFactorReal), QInt(0)>>,
                      TimesJ(QDiv(correctioni.val[t], chanScaleFactorImag))),
                 kspaceToCorrect.val[t])])

\* a[0, c, :, :] of a 4-dimensional array
Channel(a, c) ==
    Arr(<<a.shape[3], a.shape[4]>>,
        [t \in Idx(<<a.shape[3], a.shape[4]>>) |-> a.val[<<0, c, t[1], t[2]>>]])

\* kspaceCorrected[c, :, :] = currentCorrected
SetChannel(a, c, b) ==
    Arr(a.shape, [t \in Idx(a.shape) |->
                     IF t[1] = c THEN b.val[<<t[2], t[3]>>] ELSE a.val[t]])

\* np.zeros(shape, dtype = complex)
zeros(shape) == Arr(shape, [t \in Idx(shape) |-> CInt(0, 0)])

\* the axis indices of a[region[0] : region[acs - 1]], the window the ACS
\* replacement assigns
ReplaceWindow(region, acs, n) ==
    PySlice(PyIndex(region, 0), PyIndex(region, acs - 1), n)

Range(seq) == {seq[k] : k \in 1..Len(seq)}

\* a variant that adds the measured values to the ones already there
AcsReplaceAdditive(corrected, acs, regionX, regionY, ax, ay) ==
    LET rows == Range(ReplaceWindow(regionX, ax, corrected.shape[2]))
        cols == Range(ReplaceWindow(regionY, ay, corrected.shape[3]))
    IN  Arr(corrected.shape,
            [t \in Idx(corrected.shape) |->
                IF t[2] \in rows /\ t[3] \in cols
                THEN CAdd(corrected.val[t], acs.val[<<0, t[1], t[2], t[3]>>])
                ELSE corrected.val[t]])

\* corrected[:, wx, wy] = kspaceAcs[0, :, wx, wy] on a copy of corrected
AcsReplace(corrected, acs, regionX, regionY, ax, ay) ==
    LET rows == Range(ReplaceWindow(regionX, ax, corrected.shape[2]))
        cols == Range(ReplaceWindow(regionY, ay, corrected.shape[3]))
    IN  Arr(corrected.shape,
            [t \in Idx(corrected.shape) |->
                IF t[2] \in rows /\ t[3] \in cols
                THEN acs.val[<<0, t[1], t[2], t[3]>>]
                ELSE corrected.val[t]])

----------------------------------------------------------------------------
(* Readout oversampling of the wave-encoded operators *)

\* padreadout = (Nro - M) // 2 with Nro = M * os
padreadout(Mn, osf) == (Mn * osf - Mn) \div 2

\* resize(x, padreadout, inpdims = 4): np.pad of the readout axis with zeros
resize(x, pad, zero) ==
    LET shape == <<x.shape[1], x.shape[2], x.shape[3] + 2 * pad, x.shape[4]>>
    IN  Arr(shape, [t \in Idx(shape) |->
                       IF t[3] >= pad /\ t[3] < pad + x.shape[3]
                       THEN x.val[<<t[1], t[2], t[3] - pad, t[4]>>]
                       ELSE zero])

\* the readout indices of crop: Nro//2 - M//2 : Nro//2 + M//2
cropWindow(Nro, Mn, n) == PySlice(Nro \div 2 - Mn \div 2, Nro \div 2 + Mn \div 2, n)

\* crop = lambda x: x[:, :, Nro//2 - M//2 : Nro//2 + M//2, :]
crop(x, Nro, Mn) ==
    LET rows == cropWindow(Nro, Mn, x.shape[3])
        shape == <<x.shape[1], x.shape[2], Len(rows), x.shape[4]>>
    IN  Arr(shape, [t \in Idx(shape) |-> x.val[<<t[1], t[2], rows[t[3] + 1], t[4]>>]])

\* np.reshape raises ValueError unless the sizes agree
ReshapeOk(a, shape) == Prod(a.shape) = Prod(shape)

\* the reshape of senseWaveForward after resize: (C, numslices * Nro, N)
ForwardShapeOk(Cn, S, Mn, Nn, osf) ==
    Cn * S * (Mn + 2 * padreadout(Mn, osf)) * Nn = Cn * S * (Mn * osf) * Nn

\* the reshape of senseWaveAdjoint after crop: (C, numslices * M, N)
AdjointShapeOk(Cn, S, Mn, Nn, osf) ==
    Cn * S * Len(cropWindow(Mn * osf, Mn, Mn * osf)) * Nn = Cn * S * Mn * Nn

----------------------------------------------------------------------------
(* Complex arithmetic of the encoding operators, exact on Gaussian integers
   <<re, im>> *)

GInt(re, im) == <<re, im>>
GAdd(a, b) == <<a[1] + b[1], a[2] + b[2]>>
GMul(a, b) == <<a[1] * b[1] - a[2] * b[2], a[1] * b[2] + a[2] * b[1]>>
GConj(a) == <<a[1], -a[2]>>

\* i^q
GPowI(q) ==
    LET r == q % 4
    IN  IF r = 0 THEN <<1, 0>> ELSE IF r = 1 THEN <<0, 1>>
        ELSE IF r = 2 THEN <<-1, 0>> ELSE <<0, -1>>

\* the sum of f over 0..(n - 1)
RECURSIVE GSum(_, _)
GSum(f, n) == IF n = 0 THEN <<0, 0>> ELSE GAdd(GSum(f, n - 1), f[n - 1])

\* the lengths whose roots of unity are Gaussian integers
FourierLengths == {1, 2, 4}

\* exp(sign * 2 pi i k / n) for n in FourierLengths
RootOfUnity(n, k, sign) == GPowI(sign * k * (4 \div n))

----------------------------------------------------------------------------
(* numpy broadcasting and reductions *)

Max2(a, b) == IF a >= b THEN a ELSE b

\* a shape padded on the left with ones to rank r
PadShape(shape, r) ==
    [k \in 1..r |-> IF k <= r - Len(shape) THEN 1 ELSE shape[k - (r - Len(shape))]]

\* whether numpy can broadcast two shapes against each other
BroadcastOk(s1, s2) ==
    LET r == Max2(Len(s1), Len(s2))
        p1 == PadShape(s1, r)
        p2 == PadShape(s2, r)
    IN  \A k \in 1..r : p1[k] = p2[k] \/ p1[k] = 1 \/ p2[k] = 1

BroadcastShape(s1, s2) ==
    LET r == Max2(Len(s1), Len(s2))
        p1 == PadShape(s1, r)
        p2 == PadShape(s2, r)
    IN  [k \in 1..r |-> IF p1[k] = 1 THEN p2[k] ELSE p1[k]]

\* the index of an operand of shape `shape` that result index t reads
BIndex(shape, t) ==
    [k \in 1..Len(shape) |-> IF shape[k] = 1 THEN 0 ELSE t[k + (Len(t) - Len(shape))]]

\* a * b, elementwise with broadcasting
BMul(a, b) ==
    LET shape == BroadcastShape(a.shape, b.shape)
    IN  Arr(shape, [t \in Idx(shape) |->
                       GMul(a.val[BIndex(a.shape, t)], b.val[BIndex(b.shape, t)])])

\* np.conj
conj(a) == Arr(a.shape, [t \in Idx(a.shape) |-> GConj(a.val[t])])

\* a Python scalar as a 0-dimensional array
Scalar(v) == Arr(<<>>, [t \in {<<>>} |-> v])

\* the position of axis -k of a shape
AxisFromEnd(shape, k) == Len(shape) - k + 1

\* np.sum(a, -k)
SumAxis(a, k) ==
    LET p == AxisFromEnd(a.shape, k)
        shape == [q \in 1..(Len(a.shape) - 1) |->
                     IF q < p THEN a.shape[q] ELSE a.shape[q + 1]]
        full(t, j) == [q \in 1..Len(a.shape) |->
                          IF q < p THEN t[q] ELSE IF q = p THEN j ELSE t[q - 1]]
    IN  Arr(shape, [t \in Idx(shape) |->
                       GSum([j \in 0..(a.shape[p] - 1) |-> a.val[full(t, j)]], a.shape[p])])

----------------------------------------------------------------------------
(* Signal operators: the centered, orthonormal Fourier transforms.  A
   transform along an axis of length n is modelled without its factor
   1/sqrt(n), so every value stays a Gaussian integer: CenteredDFT is
   sqrt(n) times sig.fft or sig.ifft. *)

\* sign = -1: sqrt(n) * sig.fft(a, ax = -k); sign = 1: sqrt(n) * sig.ifft(a, ax = -k)
CenteredDFT(a, k, sign) ==
    LET p == AxisFromEnd(a.shape, k)
        n == a.shape[p]
        h == n \div 2
    IN  Arr(a.shape,
            [t \in Idx(a.shape) |->
                GSum([j \in 0..(n - 1) |->
                         GMul(RootOfUnity(n, (j - h) * (t[p] - h), sign),
                              a.val[[t EXCEPT ![p] = j]])], n)])

fft(a, k) == CenteredDFT(a, k, -1)
ifft(a, k) == CenteredDFT(a, k, 1)

\* sig.fft2c / sig.ifft2c: the transform along the last two axes
fft2c(a) == fft(fft(a, 1), 2)
ifft2c(a) == ifft(ifft(a, 1), 2)

----------------------------------------------------------------------------
(* SENSE operators *)

\* a variant that accepts only a mask of the k-space's own shape
senseForwardErrorStrict(x, maps, mask) ==
    IF ~BroadcastOk(maps.shape, x.shape) THEN "ValueError"
    ELSE IF mask.shape # BroadcastShape(maps.shape, x.shape) THEN "ValueError"
    ELSE "none"

\* what mask * (...) raises in senseForward: numpy's broadcasting error
senseForwardError(x, maps, mask) ==
    IF ~BroadcastOk(maps.shape, x.shape) THEN "ValueError"
    ELSE IF ~BroadcastOk(mask.shape, BroadcastShape(maps.shape, x.shape)) THEN "ValueError"
    ELSE "none"

\* senseForward: mask * sig.fft2c(maps * x)
senseForward(x, maps, mask) == BMul(mask, fft2c(BMul(maps, x)))

\* senseAdjoint: np.sum(np.conj(maps) * sig.ifft2c(x), -3); mask is not used
senseAdjoint(x, maps, mask) == SumAxis(BMul(conj(maps), ifft2c(x)), 3)

\* the inner product <a, b> = sum of a * conj(b) of two arrays of one shape
Inner(a, b) ==
    LET n == Prod(a.shape)
    IN  GSum([p \in 0..(n - 1) |->
                 GMul(a.val[Unflat(a.shape, p)], GConj(b.val[Unflat(a.shape, p)]))], n)

----------------------------------------------------------------------------
(* Wave-encoded SENSE operators.  dims is the record [C, numslices, M, N, os]
   of the notebook's globals the operators read; Nro = M * os. *)

GZero == <<0, 0>>

sforwave(x, coils) == BMul(coils, x)

sadjwave(x, coils) == SumAxis(BMul(conj(coils), x), 3)

\* Fx, Fy, Fxadj, Fyadj: the transforms along readout (-2) and phase encode (-1)
Fx(a) == fft(a, 2)
Fy(a) == fft(a, 1)
Fxadj(a) == ifft(a, 2)
Fyadj(a) == ifft(a, 1)

waveForward(x, psf) == BMul(psf, x)

waveAdjoint(x, psf) == BMul(conj(psf), x)

\* the coil images of senseWaveForward, zero-padded along the readout
PaddedCoilImages(x, maps, pad, dims) ==
    resize(Reshape(sforwave(x, maps), <<dims.C, dims.numslices, dims.M, dims.N>>), pad, GZero)

\* what senseWaveForward raises: a reshape whose sizes differ, or the
\* broadcasting error of psf * (...) or mask * (...)
senseWaveForwardError(x, maps, psf, pad, mask, dims) ==
    LET kshape == <<dims.C, dims.numslices * dims.M * dims.os, dims.N>>
    IN  IF ~BroadcastOk(maps.shape, x.shape) THEN "ValueError"
        ELSE IF ~ReshapeOk(sforwave(x, maps), <<dims.C, dims.numslices, dims.M, dims.N>>)
        THEN "ValueError"
        ELSE IF ~ReshapeOk(PaddedCoilImages(x, maps, pad, dims), kshape) THEN "ValueError"
        ELSE IF ~BroadcastOk(psf.shape, kshape) THEN "ValueError"
        ELSE IF ~BroadcastOk(mask.shape, BroadcastShape(psf.shape, kshape)) THEN "ValueError"
        ELSE "none"

\* senseWaveForward: mask * Fy(waveForward(Fx(reshape(resize(reshape(sforwave(x, maps)))))))
senseWaveForward(x, maps, psf, pad, mask, dims) ==
    BMul(mask,
         Fy(waveForward(Fx(Reshape(PaddedCoilImages(x, maps, pad, dims),
                                   <<dims.C, dims.numslices * dims.M * dims.os, dims.N>>)),
                        psf)))

\* the k-space of senseWaveAdjoint back in the image domain, before the crop
UnwavedCoilImages(x, psf, mask) == Fxadj(waveAdjoint(Fyadj(BMul(conj(mask), x)), psf))

\* what senseWaveAdjoint raises
senseWaveAdjointError(x, maps, psf, mask, dims) ==
    LET Nro == dims.M * dims.os
        oshape == <<dims.C, dims.numslices, Nro, dims.N>>
    IN  IF ~BroadcastOk(mask.shape, x.shape) THEN "ValueError"
        ELSE IF ~BroadcastOk(psf.shape, BroadcastShape(mask.shape, x.shape)) THEN "ValueError"
        ELSE IF ~ReshapeOk(UnwavedCoilImages(x, psf, mask), oshape) THEN "ValueError"
        ELSE IF ~ReshapeOk(crop(Reshape(UnwavedCoilImages(x, psf, mask), oshape), Nro, dims.M),
                           <<dims.C, dims.numslices * dims.M, dims.N>>)
        THEN "ValueError"
        ELSE "none"

\* senseWaveAdjoint: sadjwave(reshape(crop(reshape(Fxadj(waveAdjoint(Fyadj(conj(mask) * x)))))))
senseWaveAdjoint(x, maps, psf, mask, dims) ==
    sadjwave(Reshape(crop(Reshape(UnwavedCoilImages(x, psf, mask),
                                  <<dims.C, dims.numslices, dims.M * dims.os, dims.N>>),
                          dims.M * dims.os, dims.M),
                     <<dims.C, dims.numslices * dims.M, dims.N>>),
             maps)

----------------------------------------------------------------------------
(* Slice shifting *)

\* np.roll(a, k) without an axis rolls the flattened array: the element at
\* index t of the result is the one k row-major positions before t
rollSource(shape, t, k) == Unflat(shape, (Flat(shape, t) - k) % Prod(shape))

\* a variant that rolls by shift[ss] whatever the direction
performshiftOneWay(x, shift, direction) ==
    LET slab == <<x.shape[1], x.shape[3], x.shape[4]>>
    IN  Arr(x.shape, [t \in Idx(x.shape) |->
                         LET u == rollSource(slab, <<t[1], t[3], t[4]>>, shift[t[2] + 1])
                         IN  x.val[<<u[1], t[2], u[2], u[3]>>]])

\* performshift: out[:, ss, :, :] = np.roll(x[:, ss, :, :], direction * shift[ss])
performshift(x, shift, direction) ==
    LET slab == <<x.shape[1], x.shape[3], x.shape[4]>>
    IN  Arr(x.shape, [t \in Idx(x.shape) |->
                         LET u == rollSource(slab, <<t[1], t[3], t[4]>>,
                                             direction * shift[t[2] + 1])
                         IN  x.val[<<u[1], t[2], u[2], u[3]>>]])

----------------------------------------------------------------------------
(* The notebook's SPARK pipeline: the cartesian experiment, then the wave one *)

VARIABLES
    pc,                          \* the statement the notebook is at
    err,                         \* the exception that stopped it, or "none"
    C, M, numslices, N, os,      \* data extents and oversampling factor
    acsx, acsy, normalizationflag,
    senseIterations,             \* the configured solver iteration count
    acsregionX, acsregionY,
    kspaceSense, kspaceAcs,
    kspaceWaveSpark, kspaceWaveAcs,
    kspace_grappa_split, acs_difference_real, acs_difference_imag,
    chan_scale_factors_real, chan_scale_factors_imag,
    realSparkGrappaModels, imagSparkGrappaModels,
    c,                           \* the correction loop's channel
    kspaceCorrected, kspaceCorrectedReplaced,
    kspaceCorrectedWave, kspaceCorrectedReplacedWave,
    spark, sparkWave,            \* the k-space each final image is computed from
    opName, opIn, opOut,         \* an encoding operator under test, its inputs and outputs
    cg,                          \* the state of one conjgrad call
    tr                           \* the state of one trainingSparkNetwork call

configVars == <<C, M, numslices, N, acsy, normalizationflag, senseIterations>>
reformatVars == <<kspace_grappa_split, acs_difference_real, acs_difference_imag,
                  chan_scale_factors_real, chan_scale_factors_imag>>
modelVars == <<realSparkGrappaModels, imagSparkGrappaModels>>
cartesianVars == <<kspaceCorrected, kspaceCorrectedReplaced, spark>>
waveVars == <<kspaceCorrectedWave, kspaceCorrectedReplacedWave, sparkWave>>
opVars == <<opName, opIn, opOut>>
\* the variables the notebook's SPARK cells leave alone
otherVars == <<opVars, cg, tr>>
sparkVars == <<pc, err, configVars, os, acsx, acsregionX, acsregionY, kspaceSense, kspaceAcs,
               kspaceWaveSpark, kspaceWaveAcs, reformatVars, modelVars, c,
               cartesianVars, waveVars>>
vars == <<sparkVars, otherVars>>

\* The measured (fully sampled) k-space and the reconstruction error are inputs
\* of the pipeline; each is drawn from a small family of arrays.
AcsKinds == {"ramp", "zero"}
ErrKinds == {"none", "real", "imag", "both", "chan0"}
\* the (measured, error) families the wave experiment draws from
WaveKinds == {<<"ramp", "both">>, <<"ramp", "chan0">>, <<"zero", "none">>}
\* the outcomes of training the (real, imaginary) models of one experiment
Fits == {<<"zero", "zero">>, <<"unit", "mixed">>, <<"mixed", "unit">>}

AcsValue(kind, ch, i, j) ==
    IF kind = "zero" THEN CInt(0, 0)
    ELSE CInt(1 + ch + i + 2 * j, -(2 + 2 * ch + i + j))

ErrValue(kind, ch, i, j) ==
    IF kind = "none" \/ (kind = "chan0" /\ ch = 0) THEN CInt(0, 0)
    ELSE IF kind = "real" THEN CInt(1 + i + j, 0)
    ELSE IF kind = "imag" THEN CInt(0, 1 + ch + j)
    ELSE CInt(1 + i, -(2 + j))

MeasuredKspace(kind, shape) ==
    Arr(shape, [t \in Idx(shape) |-> AcsValue(kind, t[1], t[2], t[3])])

ReconstructedKspace(kind, ekind, shape) ==
    Arr(shape, [t \in Idx(shape) |->
                   CSub(AcsValue(kind, t[1], t[2], t[3]), ErrValue(ekind, t[1], t[2], t[3]))])

\* no operator is under test and no conjgrad call is running
OthersOff ==
    /\ opName = "off"
    /\ opIn = <<>>
    /\ opOut = <<>>
    /\ cg = <<>>
    /\ tr = <<>>

\* senseIterations = 20
DefaultSenseIterations == 20

InitSpark ==
    /\ pc = "acs"
    /\ err = "none"
    /\ senseIterations = DefaultSenseIterations
    /\ C \in 1..MaxC
    /\ M \in 1..MaxM
    /\ numslices \in 1..MaxSlices
    /\ N \in 1..MaxN
    /\ os = 0
    /\ acsx = M * numslices
    /\ acsy \in 1..MaxAcsy
    /\ normalizationflag \in {0, 1}
    /\ acsregionX = <<>>
    /\ acsregionY = <<>>
    /\ kspaceSense = NoArr
    /\ kspaceAcs = NoArr
    /\ kspaceWaveSpark = NoArr
    /\ kspaceWaveAcs = NoArr
    /\ kspace_grappa_split = NoArr
    /\ acs_difference_real = NoArr
    /\ acs_difference_imag = NoArr
    /\ chan_scale_factors_real = NoArr
    /\ chan_scale_factors_imag = NoArr
    /\ realSparkGrappaModels = <<>>
    /\ imagSparkGrappaModels = <<>>
    /\ c = 0
    /\ kspaceCorrected = NoArr
    /\ kspaceCorrectedReplaced = NoArr
    /\ kspaceCorrectedWave = NoArr
    /\ kspaceCorrectedReplacedWave = NoArr
    /\ spark = NoArr
    /\ sparkWave = NoArr
    /\ OthersOff

\* kspaceSense = senseForward(smsSense, coils, 1); kspaceAcs = fft2c(slicesCoils);
\* acsregionX, acsregionY
ComputeAcs ==
    /\ pc = "acs"
    /\ \E kind \in AcsKinds, ekind \in ErrKinds :
          /\ kspaceSense' = ReconstructedKspace(kind, ekind, <<C, M * numslices, N>>)
          /\ kspaceAcs' = MeasuredKspace(kind, <<C, M * numslices, N>>)
    /\ acsregionX' = acsregion(M * numslices, acsx)
    /\ acsregionY' = acsregion(N, acsy)
    /\ pc' = "reformat"
    /\ UNCHANGED <<otherVars, err, configVars, os, acsx, kspaceWaveSpark, kspaceWaveAcs, reformatVars,
                   modelVars, c, cartesianVars, waveVars>>

\* the call of reformattingKspaceForSpark on (inp, orig), and what follows it
ReformatCall(inp, orig, next) ==
    LET e == ReformatError(inp, orig, acsregionX, acsregionY, acsx, acsy, normalizationflag)
        r == reformattingKspaceForSpark(inp, orig, acsregionX, acsregionY, acsx, acsy,
                                        normalizationflag)
    IN  IF e # "none"
        THEN /\ pc' = "error"
             /\ err' = e
             /\ UNCHANGED reformatVars
        ELSE /\ pc' = next
             /\ err' = err
             /\ kspace_grappa_split' = r.kspace_grappa_split
             /\ acs_difference_real' = r.acs_difference_real
             /\ acs_difference_imag' = r.acs_difference_imag
             /\ chan_scale_factors_real' = r.chan_scale_factors_real
             /\ chan_scale_factors_imag' = r.chan_scale_factors_imag

\* kspaceSense = np.expand_dims(np.squeeze(kspaceSense), axis = 0), the same for
\* kspaceAcs, and the cartesian call of reformattingKspaceForSpark
Reformat ==
    /\ pc = "reformat"
    /\ LET inp == expand_dims0(squeeze(kspaceSense))
           orig == expand_dims0(squeeze(kspaceAcs))
           after == ArgumentsAfterReformat(inp, orig, acsregionX, acsregionY, acsx, acsy,
                                           normalizationflag)
       IN  /\ ReformatCall(inp, orig, "train")
           /\ kspaceSense' = after.inputKspace
           /\ kspaceAcs' = after.kspaceOriginal
    /\ UNCHANGED <<otherVars, configVars, os, acsx, acsregionX, acsregionY, kspaceWaveSpark, kspaceWaveAcs,
                   modelVars, c, cartesianVars, waveVars>>

\* the call of trainingSparkNetwork, cartesian and wave
TrainCall ==
    \E fit \in Fits :
        /\ realSparkGrappaModels' = trainingSparkNetwork(acs_difference_real, "r", fit[1])
        /\ imagSparkGrappaModels' = trainingSparkNetwork(acs_difference_imag, "i", fit[2])

Train ==
    /\ pc = "train"
    /\ TrainCall
    /\ pc' = "zeros"
    /\ UNCHANGED <<otherVars, err, configVars, os, acsx, acsregionX, acsregionY, kspaceSense, kspaceAcs,
                   kspaceWaveSpark, kspaceWaveAcs, reformatVars, c, cartesianVars, waveVars>>

\* one pass of the correction loop's body for channel c on the k-space toCorrect
CorrectedChannel(toCorrect) ==
    LET real_model == realSparkGrappaModels[ModelName(0, c, "r")]
        imag_model == imagSparkGrappaModels[ModelName(0, c, "i")]
        kspaceToCorrect == Channel(toCorrect, c)
        X == kspace_grappa_split.shape[3]
        Y == kspace_grappa_split.shape[4]
    IN  applySparkCorrection(kspaceToCorrect,
                             SparkNetOutput(real_model, X, Y),
                             SparkNetOutput(imag_model, X, Y),
                             chan_scale_factors_real.val[<<0, c>>],
                             chan_scale_factors_imag.val[<<0, c>>])

\* kspaceCorrected = np.zeros((C, M*numslices, N), dtype = complex)
BeginCorrection ==
    /\ pc = "zeros"
    /\ kspaceCorrected' = zeros(<<C, M * numslices, N>>)
    /\ c' = 0
    /\ pc' = "correct"
    /\ UNCHANGED <<otherVars, err, configVars, os, acsx, acsregionX, acsregionY, kspaceSense, kspaceAcs,
                   kspaceWaveSpark, kspaceWaveAcs, reformatVars, modelVars,
                   kspaceCorrectedReplaced, spark, waveVars>>

\* for c in range(0, C): kspaceCorrected[c, :, :] = applySparkCorrection(...)
CorrectChannel ==
    /\ pc = "correct"
    /\ c < C
    /\ kspaceCorrected' = SetChannel(kspaceCorrected, c, CorrectedChannel(kspaceSense))
    /\ c' = c + 1
    /\ UNCHANGED <<otherVars, pc, err, configVars, os, acsx, acsregionX, acsregionY, kspaceSense, kspaceAcs,
                   kspaceWaveSpark, kspaceWaveAcs, reformatVars, modelVars,
                   kspaceCorrectedReplaced, spark, waveVars>>

\* kspaceCorrectedReplaced = np.copy(kspaceCorrected), then the ACS window of
\* the copy is assigned from kspaceAcs
Replace ==
    /\ pc = "correct"
    /\ c = C
    /\ kspaceCorrectedReplaced' =
          AcsReplace(kspaceCorrected, kspaceAcs, acsregionX, acsregionY, acsx, acsy)
    /\ pc' = "image"
    /\ UNCHANGED <<otherVars, err, configVars, os, acsx, acsregionX, acsregionY, kspaceSense, kspaceAcs,
                   kspaceWaveSpark, kspaceWaveAcs, reformatVars, modelVars, c,
                   kspaceCorrected, spark, waveVars>>

\* a variant that computes the image from the corrected k-space before the
\* ACS replacement
ImageUnreplaced ==
    /\ pc = "image"
    /\ spark' = kspaceCorrected
    /\ pc' = "wave"
    /\ UNCHANGED <<otherVars, err, configVars, os, acsx, acsregionX, acsregionY, kspaceSense, kspaceAcs,
                   kspaceWaveSpark, kspaceWaveAcs, reformatVars, modelVars, c,
                   kspaceCorrected, kspaceCorrectedReplaced, waveVars>>

\* spark = np.sum(np.conj(coils) * sig.ifft2c(kspaceCorrectedReplaced), -3)
Image ==
    /\ pc = "image"
    /\ spark' = kspaceCorrectedReplaced
    /\ pc' = "wave"
    /\ UNCHANGED <<otherVars, err, configVars, os, acsx, acsregionX, acsregionY, kspaceSense, kspaceAcs,
                   kspaceWaveSpark, kspaceWaveAcs, reformatVars, modelVars, c,
                   kspaceCorrected, kspaceCorrectedReplaced, waveVars>>

\* The wave cells: os is set; generating kspaceWave and kadjWave raises
\* ValueError unless the reshapes after resize and crop fit.  Then
\* kspaceWaveSpark and kspaceWaveAcs are computed, acsregionX =
\* np.arange(0, M*numslices*os) and acsx = len(acsregionX).
WaveSetup ==
    /\ pc = "wave"
    /\ \E osf \in 1..MaxOs :
          /\ os' = osf
          /\ IF ForwardShapeOk(C, numslices, M, N, osf)
                /\ AdjointShapeOk(C, numslices, M, N, osf)
             THEN /\ \E kinds \in WaveKinds :
                        /\ kspaceWaveSpark' =
                              expand_dims0(ReconstructedKspace(kinds[1], kinds[2],
                                              <<C, M * numslices * osf, N>>))
                        /\ kspaceWaveAcs' =
                              expand_dims0(MeasuredKspace(kinds[1],
                                              <<C, M * numslices * osf, N>>))
                  /\ acsregionX' = arange(0, M * numslices * osf)
                  /\ acsx' = Len(acsregionX')
                  /\ pc' = "wavereformat"
                  /\ err' = err
             ELSE /\ pc' = "error"
                  /\ err' = "ValueError"
                  /\ UNCHANGED <<kspaceWaveSpark, kspaceWaveAcs, acsregionX, acsx>>
    /\ UNCHANGED <<otherVars, configVars, acsregionY, kspaceSense, kspaceAcs, reformatVars, modelVars, c,
                   cartesianVars, waveVars>>

\* the wave call of reformattingKspaceForSpark
WaveReformat ==
    /\ pc = "wavereformat"
    /\ ReformatCall(kspaceWaveSpark, kspaceWaveAcs, "wavetrain")
    /\ LET after == ArgumentsAfterReformat(kspaceWaveSpark, kspaceWaveAcs, acsregionX, acsregionY,
                                           acsx, acsy, normalizationflag)
       IN  /\ kspaceWaveSpark' = after.inputKspace
           /\ kspaceWaveAcs' = after.kspaceOriginal
    /\ UNCHANGED <<otherVars, configVars, os, acsx, acsregionX, acsregionY, kspaceSense, kspaceAcs,
                   modelVars, c, cartesianVars, waveVars>>

\* a variant that goes on with the models already in the global names
WaveTrainSkipped ==
    /\ pc = "wavetrain"
    /\ pc' = "wavezeros"
    /\ UNCHANGED <<otherVars, err, configVars, os, acsx, acsregionX, acsregionY, kspaceSense, kspaceAcs,
                   kspaceWaveSpark, kspaceWaveAcs, reformatVars, modelVars, c, cartesianVars, waveVars>>

\* realSparkGrappaModels, ..., imagSparkGrappaNames = trainingSparkNetwork(...)
\* on the outputs of the wave reformatting
WaveTrain ==
    /\ pc = "wavetrain"
    /\ TrainCall
    /\ pc' = "wavezeros"
    /\ UNCHANGED <<otherVars, err, configVars, os, acsx, acsregionX, acsregionY, kspaceSense, kspaceAcs,
                   kspaceWaveSpark, kspaceWaveAcs, reformatVars, c, cartesianVars, waveVars>>

\* kspaceCorrectedWave = np.zeros((C, M*numslices*os, N), dtype = complex)
WaveBeginCorrection ==
    /\ pc = "wavezeros"
    /\ kspaceCorrectedWave' = zeros(<<C, M * numslices * os, N>>)
    /\ c' = 0
    /\ pc' = "wavecorrect"
    /\ UNCHANGED <<otherVars, err, configVars, os, acsx, acsregionX, acsregionY, kspaceSense, kspaceAcs,
                   kspaceWaveSpark, kspaceWaveAcs, reformatVars, modelVars, cartesianVars,
                   kspaceCorrectedReplacedWave, sparkWave>>

WaveCorrectChannel ==
    /\ pc = "wavecorrect"
    /\ c < C
    /\ kspaceCorrectedWave' =
          SetChannel(kspaceCorrectedWave, c, CorrectedChannel(kspaceWaveSpark))
    /\ c' = c + 1
    /\ UNCHANGED <<otherVars, pc, err, configVars, os, acsx, acsregionX, acsregionY, kspaceSense, kspaceAcs,
                   kspaceWaveSpark, kspaceWaveAcs, reformatVars, modelVars, cartesianVars,
                   kspaceCorrectedReplacedWave, sparkWave>>

WaveReplace ==
    /\ pc = "wavecorrect"
    /\ c = C
    /\ kspaceCorrectedReplacedWave' =
          AcsReplace(kspaceCorrectedWave, kspaceWaveAcs, acsregionX, acsregionY, acsx, acsy)
    /\ pc' = "waveimage"
    /\ UNCHANGED <<otherVars, err, configVars, os, acsx, acsregionX, acsregionY, kspaceSense, kspaceAcs,
                   kspaceWaveSpark, kspaceWaveAcs, reformatVars, modelVars, c, cartesianVars,
                   kspaceCorrectedWave, sparkWave>>

\* sparkWave = senseWaveAdjoint(kspaceCorrectedReplacedWave, coils, psfRo, mask = 1)
WaveImage ==
    /\ pc = "waveimage"
    /\ sparkWave' = kspaceCorrectedReplacedWave
    /\ pc' = "done"
    /\ UNCHANGED <<otherVars, err, configVars, os, acsx, acsregionX, acsregionY, kspaceSense, kspaceAcs,
                   kspaceWaveSpark, kspaceWaveAcs, reformatVars, modelVars, c, cartesianVars,
                   kspaceCorrectedWave, kspaceCorrectedReplacedWave>>

NextSpark ==
    \/ ComputeAcs
    \/ Reformat
    \/ Train
    \/ BeginCorrection
    \/ CorrectChannel
    \/ Replace
    \/ Image
    \/ WaveSetup
    \/ WaveReformat
    \/ WaveTrain
    \/ WaveBeginCorrection
    \/ WaveCorrectChannel
    \/ WaveReplace
    \/ WaveImage

Init == InitSpark

Next == NextSpark

Spec == Init /\ [][Next]_vars

----------------------------------------------------------------------------
(* The end-to-end scenario: the correction applier and the ACS replacement are
   run on a synthetic 1-channel, 1-contrast k-space with a known ACS block and
   models that output zero everywhere. *)

\* the extents of the synthetic k-space range over 2..MaxScenario
MaxScenario == 4

InitEndToEnd ==
    /\ pc = "zeros"
    /\ err = "none"
    /\ senseIterations = DefaultSenseIterations
    /\ C = 1
    /\ numslices = 1
    /\ os = 0
    /\ M \in 2..MaxScenario
    /\ N \in 2..MaxScenario
    /\ acsx \in 1..M
    /\ acsy \in 1..N
    /\ normalizationflag \in {0, 1}
    /\ acsregionX = acsregion(M, acsx)
    /\ acsregionY = acsregion(N, acsy)
    /\ \E ekind \in {"both", "real", "none"} :
          /\ kspaceSense = ReconstructedKspace("ramp", ekind, <<1, 1, M, N>>)
          /\ kspaceAcs = MeasuredKspace("ramp", <<1, 1, M, N>>)
    /\ ReformatError(kspaceSense, kspaceAcs, acsregionX, acsregionY, acsx, acsy,
                     normalizationflag) = "none"
    /\ LET r == reformattingKspaceForSpark(kspaceSense, kspaceAcs, acsregionX, acsregionY,
                                           acsx, acsy, normalizationflag)
       IN  /\ kspace_grappa_split = r.kspace_grappa_split
           /\ acs_difference_real = r.acs_difference_real
           /\ acs_difference_imag = r.acs_difference_imag
           /\ chan_scale_factors_real = r.chan_scale_factors_real
           /\ chan_scale_factors_imag = r.chan_scale_factors_imag
    /\ realSparkGrappaModels = trainingSparkNetwork(acs_difference_real, "r", "zero")
    /\ imagSparkGrappaModels = trainingSparkNetwork(acs_difference_imag, "i", "zero")
    /\ c = 0
    /\ kspaceWaveSpark = NoArr
    /\ kspaceWaveAcs = NoArr
    /\ kspaceCorrected = NoArr
    /\ kspaceCorrectedReplaced = NoArr
    /\ kspaceCorrectedWave = NoArr
    /\ kspaceCorrectedReplacedWave = NoArr
    /\ spark = NoArr
    /\ sparkWave = NoArr
    /\ OthersOff

NextEndToEnd ==
    \/ BeginCorrection
    \/ CorrectChannel
    \/ Replace

SpecEndToEnd == InitEndToEnd /\ [][NextEndToEnd]_vars

----------------------------------------------------------------------------
(* The encoding operators, each applied to inputs drawn from small families *)

\* shift entries range over -MaxShift..MaxShift
MaxShift == 3
\* the in-plane acceleration Ry ranges over 1..MaxRy
MaxRy == 2
\* the native readout length of resize / crop ranges over 1..MaxReadout
MaxReadout == 3

\* the variables of the SPARK cells before any of them has run
PipelineOff ==
    /\ pc = "off"
    /\ err = "none"
    /\ C = 0 /\ M = 0 /\ numslices = 0 /\ N = 0 /\ os = 0
    /\ acsx = 0 /\ acsy = 0 /\ normalizationflag = 0
    /\ acsregionX = <<>> /\ acsregionY = <<>>
    /\ kspaceSense = NoArr /\ kspaceAcs = NoArr
    /\ kspaceWaveSpark = NoArr /\ kspaceWaveAcs = NoArr
    /\ kspace_grappa_split = NoArr
    /\ acs_difference_real = NoArr /\ acs_difference_imag = NoArr
    /\ chan_scale_factors_real = NoArr /\ chan_scale_factors_imag = NoArr
    /\ realSparkGrappaModels = <<>> /\ imagSparkGrappaModels = <<>>
    /\ c = 0
    /\ kspaceCorrected = NoArr /\ kspaceCorrectedReplaced = NoArr
    /\ kspaceCorrectedWave = NoArr /\ kspaceCorrectedReplacedWave = NoArr
    /\ spark = NoArr /\ sparkWave = NoArr

\* the SPARK variables while an operator is under test
SparkOff ==
    /\ PipelineOff
    /\ senseIterations = DefaultSenseIterations

\* an array that is u at row-major position q and zero elsewhere
Basis(shape, q, u) ==
    Arr(shape, [t \in Idx(shape) |-> IF Flat(shape, t) = q THEN u ELSE GZero])

\* an array whose elements are pairwise different
Distinct(shape) ==
    Arr(shape, [t \in Idx(shape) |-> GInt(1 + Flat(shape, t), -Flat(shape, t))])

\* coil sensitivity maps: all one, or a different phase and magnitude per position
MapKinds == {"ones", "varied"}
Maps(kind, shape) ==
    Arr(shape, [t \in Idx(shape) |->
                   IF kind = "ones" THEN GInt(1, 0)
                   ELSE GMul(GPowI(Flat(shape, t)), GInt(1 + t[1], 0))])

\* point-spread functions of unit modulus
PsfKinds == {"flat", "varied"}
Psf(kind, shape) ==
    Arr(shape, [t \in Idx(shape) |->
                   IF kind = "flat" THEN GInt(1, 0) ELSE GPowI(1 + t[2] + 2 * t[3])])

\* a variant that samples every line that is on either grid
SamplingMaskEither(shape, S, Ry) ==
    LET n == Len(shape)
    IN  Arr(shape, [t \in Idx(shape) |->
                       IF (n >= 2 /\ t[n - 1] % S = 0) \/ (n >= 1 /\ t[n] % Ry = 0)
                       THEN GInt(1, 0) ELSE GZero])

\* np.zeros(shape) with mask[..., ::numslices, ::Ry] = 1
SamplingMask(shape, S, Ry) ==
    LET n == Len(shape)
    IN  Arr(shape, [t \in Idx(shape) |->
                       IF (n >= 2 => t[n - 1] % S = 0) /\ (n >= 1 => t[n] % Ry = 0)
                       THEN GInt(1, 0) ELSE GZero])

Units == {GInt(1, 0), GInt(0, 1)}

InitOps ==
    /\ SparkOff
    /\ opName = "idle"
    /\ opIn = <<>>
    /\ opOut = <<>>
    /\ cg = <<>>
    /\ tr = <<>>

\* the operator under test has returned; the next one may be applied
Reset ==
    /\ opName \notin {"idle", "off"}
    /\ opName' = "idle"
    /\ opIn' = <<>>
    /\ opOut' = <<>>
    /\ UNCHANGED <<sparkVars, cg, tr>>

\* performshift(x, shift, +1) and performshift of its result with -1
DoPerformshift ==
    /\ opName = "idle"
    /\ \E a \in 1..MaxC, S \in 1..MaxSlices, m \in 1..MaxM :
         \E shift \in [1..S -> (-MaxShift)..MaxShift] :
            LET xin == Distinct(<<a, S, m, 2>>)
                shifted == performshift(xin, shift, 1)
            IN  /\ opIn' = [x |-> xin, shift |-> shift]
                /\ opOut' = [shifted |-> shifted, back |-> performshift(shifted, shift, -1)]
    /\ opName' = "performshift"
    /\ UNCHANGED <<sparkVars, cg, tr>>

\* resize(x, padreadout, inpdims = 4) and crop of its result, for one (M, os)
DoResizeCrop ==
    /\ opName = "idle"
    /\ \E a \in 1..MaxC, S \in 1..MaxSlices, m \in 1..MaxReadout, n \in 1..MaxM,
          osf \in 1..MaxOs :
            LET xin == Distinct(<<a, S, m, n>>)
                padded == resize(xin, padreadout(m, osf), GZero)
            IN  /\ opIn' = [x |-> xin, M |-> m, os |-> osf]
                /\ opOut' = [padded |-> padded, cropped |-> crop(padded, m * osf, m)]
    /\ opName' = "resize"
    /\ UNCHANGED <<sparkVars, cg, tr>>

\* the mask shapes tried against a k-space of shape kshape: a scalar, the
\* k-space's shape, shapes numpy can broadcast, and shapes it cannot
MaskShapes(kshape) ==
    {<<>>, kshape, <<kshape[3]>>, <<kshape[2], kshape[3]>>, <<kshape[1], 1, 1>>,
     <<kshape[1] + 1, kshape[2], kshape[3]>>, <<kshape[2] + 1, kshape[3]>>,
     <<kshape[3] + 2>>}

\* the image and k-space extents the transforms are exact for
Extents == FourierLengths \cap (1..MaxM)

\* senseForward(x, maps, mask) for a mask of any shape
DoSenseForward ==
    /\ opName = "idle"
    /\ \E Cn \in 1..MaxC, X \in Extents, Y \in Extents, Ry \in 1..MaxRy :
         \E mshape \in MaskShapes(<<Cn, X, Y>>) :
            LET xin == Distinct(<<X, Y>>)
                maps == Maps("varied", <<Cn, X, Y>>)
                mask == SamplingMask(mshape, 1, Ry)
                e == senseForwardError(xin, maps, mask)
            IN  /\ opIn' = [x |-> xin, maps |-> maps, mask |-> mask,
                            kshape |-> <<Cn, X, Y>>]
                /\ opOut' = [err |-> e,
                             y |-> IF e = "none" THEN senseForward(xin, maps, mask)
                                   ELSE NoArr]
    /\ opName' = "senseForward"
    /\ UNCHANGED <<sparkVars, cg, tr>>

\* the globals of the wave operators for which the transforms are exact
WaveDims ==
    {d \in [C : 1..MaxC, numslices : 1..MaxSlices, M : 1..MaxM,
            N : FourierLengths \cap (1..MaxN), os : 1..MaxOs] :
        d.numslices * d.M * d.os \in FourierLengths}

\* senseWaveForward(x, maps, psf, padreadout, mask) for a mask of any shape
DoSenseWaveForward ==
    /\ opName = "idle"
    /\ \E d \in WaveDims :
         \E mshape \in MaskShapes(<<d.C, d.numslices * d.M * d.os, d.N>>) :
            LET xin == Distinct(<<d.numslices * d.M, d.N>>)
                maps == Maps("varied", <<d.C, d.numslices * d.M, d.N>>)
                psf == Psf("varied", <<1, d.numslices * d.M * d.os, d.N>>)
                mask == SamplingMask(mshape, d.numslices, MaxRy)
                pad == padreadout(d.M, d.os)
                e == senseWaveForwardError(xin, maps, psf, pad, mask, d)
            IN  /\ opIn' = [x |-> xin, maps |-> maps, psf |-> psf, mask |-> mask, dims |-> d,
                            kshape |-> <<d.C, d.numslices * d.M * d.os, d.N>>]
                /\ opOut' = [err |-> e,
                             y |-> IF e = "none"
                                   THEN senseWaveForward(xin, maps, psf, pad, mask, d)
                                   ELSE NoArr]
    /\ opName' = "senseWaveForward"
    /\ UNCHANGED <<sparkVars, cg, tr>>

\* k-space arrays: nonzero everywhere, or nonzero at sampled positions only
YKinds == {"full", "sampled"}
Measurement(ykind, mask, shape) ==
    IF ykind = "full" THEN Distinct(shape) ELSE BMul(mask, Distinct(shape))

\* senseForward(x, maps, mask) and senseAdjoint(y, maps, mask) with the inner
\* products <senseForward(x), y> and <x, senseAdjoint(y)>
DoSenseAdjoint ==
    /\ opName = "idle"
    /\ \E Cn \in 1..MaxC, X \in Extents, Y \in Extents, kind \in MapKinds,
          S \in 1..MaxSlices, Ry \in 1..MaxRy :
         \E q \in 0..(X * Y - 1), u \in Units, ykind \in YKinds :
            LET xin == Basis(<<X, Y>>, q, u)
                maps == Maps(kind, <<Cn, X, Y>>)
                mask == SamplingMask(<<Cn, X, Y>>, S, Ry)
                yin == Measurement(ykind, mask, <<Cn, X, Y>>)
                forward == senseForward(xin, maps, mask)
                adjoint == senseAdjoint(yin, maps, mask)
            IN  /\ opIn' = [x |-> xin, y |-> yin, maps |-> maps, mask |-> mask]
                /\ opOut' = [forward |-> forward, adjoint |-> adjoint,
                             lhs |-> Inner(forward, yin), rhs |-> Inner(xin, adjoint)]
    /\ opName' = "senseAdjoint"
    /\ UNCHANGED <<sparkVars, cg, tr>>

\* senseWaveForward(x, ...) and senseWaveAdjoint(y, ...) with the inner products
\* <senseWaveForward(x), y> and <x, senseWaveAdjoint(y)>
DoSenseWaveAdjoint ==
    /\ opName = "idle"
    /\ \E d \in WaveDims, Ry \in {0, MaxRy} :
         \E q \in 0..(d.numslices * d.M * d.N - 1), u \in Units, ykind \in YKinds :
            LET kshape == <<d.C, d.numslices * d.M * d.os, d.N>>
                xin == Basis(<<d.numslices * d.M, d.N>>, q, u)
                maps == Maps("varied", <<d.C, d.numslices * d.M, d.N>>)
                psf == Psf("varied", <<1, d.numslices * d.M * d.os, d.N>>)
                \* Ry = 0 stands for the scalar mask 1
                mask == IF Ry = 0 THEN Scalar(GInt(1, 0))
                        ELSE SamplingMask(kshape, d.numslices, Ry)
                yin == Measurement(ykind, mask, kshape)
                pad == padreadout(d.M, d.os)
                fe == senseWaveForwardError(xin, maps, psf, pad, mask, d)
                ae == senseWaveAdjointError(yin, maps, psf, mask, d)
                forward == senseWaveForward(xin, maps, psf, pad, mask, d)
                adjoint == senseWaveAdjoint(yin, maps, psf, mask, d)
            IN  /\ opIn' = [x |-> xin, y |-> yin, maps |-> maps, psf |-> psf, mask |-> mask,
                            dims |-> d]
                /\ opOut' = [ferr |-> fe, aerr |-> ae,
                             forward |-> IF fe = "none" THEN forward ELSE NoArr,
                             adjoint |-> IF ae = "none" THEN adjoint ELSE NoArr,
                             lhs |-> IF fe = "none" THEN Inner(forward, yin) ELSE GZero,
                             rhs |-> IF ae = "none" THEN Inner(xin, adjoint) ELSE GZero]
    /\ opName' = "senseWaveAdjoint"
    /\ UNCHANGED <<sparkVars, cg, tr>>

\* the slice shift and its inverse
NextShift == DoPerformshift \/ Reset

SpecShift == InitOps /\ [][NextShift]_vars

\* the forward operators under masks of every shape
NextMask == DoSenseForward \/ DoSenseWaveForward \/ Reset

SpecMask == InitOps /\ [][NextMask]_vars

\* the oversampling helpers and the forward / adjoint pairs
NextOps ==
    \/ DoResizeCrop
    \/ DoSenseAdjoint
    \/ DoSenseWaveAdjoint
    \/ Reset

SpecOps == InitOps /\ [][NextOps]_vars

----------------------------------------------------------------------------
(* iterative.conjgrad(A, b, x0, ite): the conjugate-gradient solver, on real
   vectors of length two with the normal operator given as a symmetric
   positive-definite matrix.  cg is the solver's frame: its arguments, its
   locals x, r, p, the number k of steps done and the value it returned. *)

\* ite ranges over 0..MaxIte
MaxIte == 3
\* entries of b range over -MaxRhs..MaxRhs
MaxRhs == 1

\* the normal operators tried: symmetric positive-definite matrices
NormalOperators == {<<<<1, 0>>, <<0, 1>>>>, <<<<2, 0>>, <<0, 1>>>>, <<<<2, 1>>, <<1, 2>>>>}

\* A(v)
Apply(A, v) == [i \in 1..2 |-> QAdd(QMul(QInt(A[i][1]), v[1]), QMul(QInt(A[i][2]), v[2]))]

\* u . v
Dot(u, v) == QAdd(QMul(u[1], v[1]), QMul(u[2], v[2]))

\* u + a v
Axpy(u, a, v) == [i \in 1..2 |-> QAdd(u[i], QMul(a, v[i]))]

\* a variant of the loop condition that also stops once the residual vanishes
CGContinueEarly(s) == s.k < s.ite /\ Dot(s.r, s.r) # QInt(0)
\* the loop condition of conjgrad: a fixed number of steps
CGContinue(s) == s.k < s.ite

\* one conjugate-gradient update of the locals x, r, p
CGUpdate(s) ==
    LET Ap == Apply(s.A, s.p)
        alpha == QDiv(Dot(s.r, s.r), Dot(s.p, Ap))
        rnew == Axpy(s.r, QSub(QInt(0), alpha), Ap)
        beta == QDiv(Dot(rnew, rnew), Dot(s.r, s.r))
    IN  [s EXCEPT !.x = Axpy(s.x, alpha, s.p),
                  !.r = rnew,
                  !.p = Axpy(rnew, beta, s.p),
                  !.k = s.k + 1]

\* the operator variables while the solver or the pipeline runs
OpsOff ==
    /\ opName = "off"
    /\ opIn = <<>>
    /\ opOut = <<>>

\* the frame of the call conjgrad(A, b, x0, ite) made by `call`: r0 = b - A(x0),
\* p0 = r0
CGFrame(call, A, b, x0, ite) ==
    LET r0 == Axpy(b, QInt(-1), Apply(A, x0))
    IN  [pc |-> "loop", call |-> call, A |-> A, b |-> b, x0 |-> x0, ite |-> ite,
         x |-> x0, r |-> r0, p |-> r0, k |-> 0, result |-> <<>>]

\* a call of conjgrad with arguments drawn from small sets
InitCG ==
    /\ SparkOff
    /\ OpsOff
    /\ tr = <<>>
    /\ \E A \in NormalOperators, b \in [1..2 -> (-MaxRhs)..MaxRhs], x0 \in [1..2 -> 0..1],
          ite \in 0..MaxIte :
         cg = CGFrame("direct", A, [i \in 1..2 |-> QInt(b[i])], [i \in 1..2 |-> QInt(x0[i])], ite)

\* one pass of the loop body
CGStep ==
    /\ cg.pc = "loop"
    /\ CGContinue(cg)
    /\ cg' = CGUpdate(cg)
    /\ UNCHANGED <<sparkVars, opVars, tr>>

\* the loop is over: return x
CGReturn ==
    /\ cg.pc = "loop"
    /\ ~CGContinue(cg)
    /\ cg' = [cg EXCEPT !.pc = "returned", !.result = cg.x]
    /\ UNCHANGED <<sparkVars, opVars, tr>>

NextCG == CGStep \/ CGReturn

SpecCG == InitCG /\ [][NextCG]_vars

----------------------------------------------------------------------------
(* The two reconstruction cells: smsSense = conjgrad(normal, kadj, kadj,
   ite = 20), then smsWave = conjgrad(normalWave, kadjWave, kadjWave,
   ite = 20), for every configured senseIterations. *)

\* senseIterations ranges over 0..MaxSenseIterations and the notebook's value
MaxSenseIterations == 3

\* the iteration count both reconstruction cells pass: ite = 20
ReconIte == 20

InitRecon ==
    /\ PipelineOff
    /\ OpsOff
    /\ senseIterations \in (0..MaxSenseIterations) \cup {DefaultSenseIterations}
    /\ cg = [pc |-> "sense"]
    /\ tr = <<>>

\* the right-hand side kadj (kadjWave) is also the initial guess
ReconCall(call) ==
    \E A \in NormalOperators, b \in [1..2 -> (-MaxRhs)..MaxRhs] :
        cg' = CGFrame(call, A, [i \in 1..2 |-> QInt(b[i])], [i \in 1..2 |-> QInt(b[i])],
                      ReconIte)

\* smsSense = iterative.conjgrad(normal, kadj.ravel(), kadj.ravel(), ite = 20)
SenseRecon ==
    /\ cg.pc = "sense"
    /\ ReconCall("sense")
    /\ UNCHANGED <<sparkVars, opVars, tr>>

\* smsWave = iterative.conjgrad(normalWave, kadjWave.ravel(), kadjWave.ravel(), ite = 20)
WaveRecon ==
    /\ cg.pc = "returned"
    /\ cg.call = "sense"
    /\ ReconCall("wave")
    /\ UNCHANGED <<sparkVars, opVars, tr>>

NextRecon == SenseRecon \/ CGStep \/ CGReturn \/ WaveRecon

SpecRecon == InitRecon /\ [][NextRecon]_vars

----------------------------------------------------------------------------
(* trainingSparkNetwork, statement by statement.  tr is the function's frame:
   E, C and iterations, the loop variables comp ("r": the real-model loops,
   "i": the imaginary ones), e, c and epoch, the model instance and the
   optimizer of the current pass, the dictionaries and name lists built so
   far, and what the caller's correction loop looks up after the return.
   Model instances are numbered in the order they are created; stepsOf[id]
   counts the optimizer steps instance id has received. *)

\* E ranges over 1..MaxContrasts
MaxContrasts == 2
\* iterations ranges over 0..MaxEpochs
MaxEpochs == 2

\* an entry of the record of operations of the current epoch
Event(op, t) == [op |-> op, e |-> t.e, c |-> t.c, comp |-> t.comp]

InitTrain ==
    /\ SparkOff
    /\ OpsOff
    /\ cg = <<>>
    /\ \E E \in 1..MaxContrasts, Cn \in 1..MaxC, it \in 0..MaxEpochs :
          tr = [pc |-> "enter", E |-> E, C |-> Cn, iterations |-> it,
                comp |-> "r", e |-> 0, c |-> 0, epoch |-> 0,
                model_name |-> <<>>, model |-> 0, optimizer |-> 0, stepsOf |-> <<>>,
                loss |-> 0, running_loss |-> 0, events |-> <<>>, steps |-> 0,
                real_models |-> <<>>, real_model_names |-> <<>>,
                imag_models |-> <<>>, imag_model_names |-> <<>>,
                look |-> 0, err |-> "none"]

\* model_name = ...; model = models.SPARK_Netv2(...); optimizer =
\* optim.Adam(model.parameters(), lr = learningRate); running_loss = 0
NewModel ==
    /\ tr.pc = "enter"
    /\ tr' = [tr EXCEPT !.pc = "epoch",
                        !.model_name = ModelName(tr.e, tr.c, tr.comp),
                        !.model = Len(tr.stepsOf) + 1,
                        !.optimizer = Len(tr.stepsOf) + 1,
                        !.stepsOf = Append(tr.stepsOf, 0),
                        !.epoch = 0,
                        !.running_loss = 0,
                        !.events = <<>>]
    /\ UNCHANGED <<sparkVars, opVars, cg>>

\* a variant of the loop condition that also stops once the loss is zero
TrainContinueUntilFit(t) == t.epoch < t.iterations /\ (t.epoch = 0 \/ t.running_loss # 0)
\* for epoch in range(iterations)
TrainContinue(t) == t.epoch < t.iterations

\* optimizer.zero_grad()
ZeroGrad ==
    /\ tr.pc = "epoch"
    /\ TrainContinue(tr)
    /\ tr' = [tr EXCEPT !.pc = "forward", !.events = <<Event("zero_grad", tr)>>]
    /\ UNCHANGED <<sparkVars, opVars, cg>>

\* _, loss_out = model(kspsplit), kspsplit = kspaceGrappaSplit[e, :, :, :]
Forward ==
    /\ tr.pc = "forward"
    /\ tr' = [tr EXCEPT !.pc = "loss", !.events = Append(tr.events, Event("forward", tr))]
    /\ UNCHANGED <<sparkVars, opVars, cg>>

\* loss = criterion(loss_out, acsDifferenceReal[e, c, :, :, :, :]) (Imag in the
\* second pair of loops): zero when the model fits its target, positive otherwise
Loss ==
    /\ tr.pc = "loss"
    /\ \E l \in {0, 1} :
          tr' = [tr EXCEPT !.pc = "backward", !.loss = l,
                           !.events = Append(tr.events, Event("loss", tr))]
    /\ UNCHANGED <<sparkVars, opVars, cg>>

\* loss.backward()
Backward ==
    /\ tr.pc = "backward"
    /\ tr' = [tr EXCEPT !.pc = "step", !.events = Append(tr.events, Event("backward", tr))]
    /\ UNCHANGED <<sparkVars, opVars, cg>>

\* optimizer.step(); running_loss = loss.item(): the instance whose parameters
\* the optimizer holds is updated, and the next epoch begins
Step ==
    /\ tr.pc = "step"
    /\ tr' = [tr EXCEPT !.pc = "epoch",
                        !.stepsOf[tr.optimizer] = @ + 1,
                        !.steps = @ + 1,
                        !.running_loss = tr.loss,
                        !.epoch = @ + 1,
                        !.events = Append(tr.events, Event("step", tr))]
    /\ UNCHANGED <<sparkVars, opVars, cg>>

\* the frame after the loops advance past (e, c): the next channel, the next
\* contrast, the imaginary loops after the real ones, or the return
Advance(t) ==
    IF t.c + 1 < t.C THEN [t EXCEPT !.pc = "enter", !.c = @ + 1]
    ELSE IF t.e + 1 < t.E THEN [t EXCEPT !.pc = "enter", !.c = 0, !.e = @ + 1]
    ELSE IF t.comp = "r" THEN [t EXCEPT !.pc = "enter", !.c = 0, !.e = 0, !.comp = "i"]
    ELSE [t EXCEPT !.pc = "returned"]

\* real_model_names.append(model_name); real_models.update({model_name : model})
\* (imag_... in the second pair of loops)
StoreModel ==
    /\ tr.pc = "epoch"
    /\ ~TrainContinue(tr)
    /\ tr' = Advance(IF tr.comp = "r"
                     THEN [tr EXCEPT !.real_model_names = Append(@, tr.model_name),
                                     !.real_models = (tr.model_name :> tr.model) @@ @]
                     ELSE [tr EXCEPT !.imag_model_names = Append(@, tr.model_name),
                                     !.imag_models = (tr.model_name :> tr.model) @@ @])
    /\ UNCHANGED <<sparkVars, opVars, cg>>

\* the caller's correction loop: real_model = realSparkGrappaModels[model_namer],
\* imag_model = imagSparkGrappaModels[model_namei] for c in range(0, C)
Lookup ==
    /\ tr.pc = "returned"
    /\ tr.look < tr.C
    /\ tr' = IF /\ ModelName(0, tr.look, "r") \in DOMAIN tr.real_models
                /\ ModelName(0, tr.look, "i") \in DOMAIN tr.imag_models
             THEN [tr EXCEPT !.look = @ + 1]
             ELSE [tr EXCEPT !.pc = "error", !.err = "KeyError"]
    /\ UNCHANGED <<sparkVars, opVars, cg>>

NextTrain ==
    \/ NewModel
    \/ ZeroGrad
    \/ Forward
    \/ Loss
    \/ Backward
    \/ Step
    \/ StoreModel
    \/ Lookup

SpecTrain == InitTrain /\ [][NextTrain]_vars

----------------------------------------------------------------------------
(* The cells that simulate the undersampled acquisitions: the sampling mask
   is built, and the k-space is the mask times the transformed coil images
   plus noise. *)

\* a + b for arrays of one shape
ArrAdd(a, b) == Arr(a.shape, [t \in Idx(a.shape) |-> GAdd(a.val[t], b.val[t])])

\* np.random.normal(...) + 1j * np.random.normal(...): no noise, or a nonzero
\* value that differs per position
NoiseKinds == {"none", "varied"}
Noise(kind, shape) ==
    Arr(shape, [t \in Idx(shape) |->
                   IF kind = "none" THEN GZero ELSE GInt(1 + Flat(shape, t), 2 + t[Len(shape)])])

\* mask = np.zeros(slicesCoils.shape); mask[:, ::numslices, ::Ry] = 1;
\* kspace = mask * (sig.fft2c(slicesCoils) + noise)
DoSimulate ==
    /\ opName = "idle"
    /\ \E Cn \in 1..MaxC, S \in 1..MaxSlices, Mn \in 1..MaxM, Nn \in FourierLengths \cap (1..MaxN),
          Ry \in 1..MaxRy, nk \in NoiseKinds :
          /\ Mn * S \in FourierLengths
          /\ LET slicesCoils == Distinct(<<Cn, Mn * S, Nn>>)
                 mask == SamplingMask(slicesCoils.shape, S, Ry)
                 noise == Noise(nk, mask.shape)
             IN  /\ opIn' = [slicesCoils |-> slicesCoils, numslices |-> S, Ry |-> Ry,
                             noise |-> noise, gated |-> ArrAdd(fft2c(slicesCoils), noise)]
                 /\ opOut' = [err |-> "none", mask |-> mask,
                              kspace |-> BMul(mask, ArrAdd(fft2c(slicesCoils), noise))]
    /\ opName' = "simulate"
    /\ UNCHANGED <<sparkVars, cg, tr>>

\* maskWave = np.zeros((C, M*os*numslices, N)); maskWave[:, ::numslices, ::Ry] = 1;
\* kspaceWave = maskWave * (Fy(waveForward(Fx(reshape(resize(reshape(slicesCoils))))))
\* + noiseWave); the reshape after resize raises ValueError when the sizes differ
DoSimulateWave ==
    /\ opName = "idle"
    /\ \E Cn \in 1..MaxC, S \in 1..MaxSlices, Mn \in 1..MaxM, Nn \in FourierLengths \cap (1..MaxN),
          osf \in 1..MaxOs, Ry \in 1..MaxRy, nk \in NoiseKinds :
          /\ ForwardShapeOk(Cn, S, Mn, Nn, osf) => S * Mn * osf \in FourierLengths
          /\ LET Nro == Mn * osf
                 slicesCoils == Distinct(<<Cn, Mn * S, Nn>>)
                 maskWave == SamplingMask(<<Cn, Mn * osf * S, Nn>>, S, Ry)
                 noiseWave == Noise(nk, maskWave.shape)
                 psfRo == Psf("varied", <<1, S * Nro, Nn>>)
                 padded == resize(Reshape(slicesCoils, <<Cn, S, Mn, Nn>>), padreadout(Mn, osf), GZero)
                 waved == Fy(waveForward(Fx(Reshape(padded, <<Cn, S * Nro, Nn>>)), psfRo))
             IN  /\ opIn' = [slicesCoils |-> slicesCoils, numslices |-> S, Ry |-> Ry,
                             noise |-> noiseWave,
                             gated |-> IF ReshapeOk(padded, <<Cn, S * Nro, Nn>>)
                                       THEN ArrAdd(waved, noiseWave) ELSE NoArr]
                 /\ opOut' = IF ReshapeOk(padded, <<Cn, S * Nro, Nn>>)
                             THEN [err |-> "none", mask |-> maskWave,
                                   kspace |-> BMul(maskWave, ArrAdd(waved, noiseWave))]
                             ELSE [err |-> "ValueError", mask |-> maskWave, kspace |-> NoArr]
    /\ opName' = "simulateWave"
    /\ UNCHANGED <<sparkVars, cg, tr>>

NextSim ==
    \/ DoSimulate
    \/ DoSimulateWave
    \/ Reset

SpecSim == InitOps /\ [][NextSim]_vars

----------------------------------------------------------------------------
(* C1 - C4: the ACS replacement and the reformatter's checks *)

\* rep is corrected with exactly the samples at (acsregionX, acsregionY)
\* taken from the measured k-space acs
SplicedExactly(rep, corrected, acs) ==
    \A t \in Idx(rep.shape) :
        rep.val[t] = IF t[2] \in Range(acsregionX) /\ t[3] \in Range(acsregionY)
                     THEN acs.val[<<0>> \o t]
                     ELSE corrected.val[t]

\* C1: after the ACS replacement, in the cartesian and in the wave experiment,
\* every sample with readout index in acsregionX and phase-encode index in
\* acsregionY (their last indices included) equals the measured ACS value, and
\* every other sample equals the corrected k-space.
C1_ReplacementCoversWindow ==
    /\ pc = "image" => SplicedExactly(kspaceCorrectedReplaced, kspaceCorrected, kspaceAcs)
    /\ pc = "waveimage" =>
          SplicedExactly(kspaceCorrectedReplacedWave, kspaceCorrectedWave, kspaceWaveAcs)

\* C2: with one channel, one contrast and models that output zero, correction
\* followed by the ACS replacement leaves every sample outside the ACS window
\* equal to the uncorrected reconstruction, and the samples inside the window,
\* and only those, are the measured ACS samples.
C2_ZeroModelEndToEnd ==
    pc = "image" =>
        \A t \in Idx(kspaceCorrectedReplaced.shape) :
            kspaceCorrectedReplaced.val[t] =
                IF t[2] \in Range(acsregionX) /\ t[3] \in Range(acsregionY)
                THEN kspaceAcs.val[<<0>> \o t]
                ELSE kspaceSense.val[<<0>> \o t]

AllFinite(a) == \A t \in Idx(a.shape) : QFinite(a.val[t])

\* C3: no non-finite scale factor is ever stored in chan_scale_factors_real /
\* chan_scale_factors_imag, and none is multiplied into the returned tensors:
\* a zero divisor is reported instead.
C3_ZeroNormalizationReported ==
    /\ AllFinite(chan_scale_factors_real)
    /\ AllFinite(chan_scale_factors_imag)
    /\ AllFinite(acs_difference_real)
    /\ AllFinite(acs_difference_imag)
    /\ AllFinite(kspace_grappa_split)

\* the ACS region lies inside a k-space of extents X by Y
RegionContained(X, Y) ==
    /\ Range(acsregionX) \subseteq 0..(X - 1)
    /\ Range(acsregionY) \subseteq 0..(Y - 1)

\* C4: the reformatter crops, and the replacement splices, only with an ACS
\* region that lies inside the k-space extent; any other region is reported
\* before use.
C4_RegionValidatedBeforeUse ==
    /\ pc \in {"train", "zeros", "correct", "image"} => RegionContained(M * numslices, N)
    /\ pc \in {"wavetrain", "wavezeros", "wavecorrect", "waveimage", "done"} =>
          RegionContained(M * numslices * os, N)

----------------------------------------------------------------------------
(* C5 - C9: the encoding operators *)

\* shapes numpy can multiply elementwise: aligned at their last axes, every
\* pair of extents is equal or has a one
Compatible(ms, ks) ==
    \A k \in 1..(IF Len(ms) < Len(ks) THEN Len(ms) ELSE Len(ks)) :
        LET a == ms[Len(ms) - k + 1]
            b == ks[Len(ks) - k + 1]
        IN  a = b \/ a = 1 \/ b = 1

\* the forward operator's reshapes before the mask is applied succeed
GatedKspaceBuilt ==
    opName = "senseWaveForward" =>
        ForwardShapeOk(opIn.dims.C, opIn.dims.numslices, opIn.dims.M, opIn.dims.N, opIn.dims.os)

\* the forward operator applied to the input with the scalar mask 1
Ungated ==
    IF opName = "senseForward" THEN senseForward(opIn.x, opIn.maps, Scalar(GInt(1, 0)))
    ELSE senseWaveForward(opIn.x, opIn.maps, opIn.psf, padreadout(opIn.dims.M, opIn.dims.os),
                          Scalar(GInt(1, 0)), opIn.dims)

C6_SenseAdjointIsAdjoint ==
    opName = "senseAdjoint" => opOut.lhs = opOut.rhs

\* C7: senseWaveForward and senseWaveAdjoint both succeed and
\* <senseWaveForward(x, ...), y> = <x, senseWaveAdjoint(y, ...)> for every image
\* x and every oversampled k-space array y.
C7_SenseWaveAdjointIsAdjoint ==
    opName = "senseWaveAdjoint" =>
        /\ opOut.ferr = "none"
        /\ opOut.aerr = "none"
        /\ opOut.lhs = opOut.rhs

\* C8: for every native readout length M and oversampling factor os, resize
\* pads the readout axis to exactly M * os samples, crop selects exactly M
\* samples, and crop(resize(x)) = x.
C8_CropUndoesResize ==
    opName = "resize" =>
        /\ opOut.padded.shape[3] = opIn.M * opIn.os
        /\ opOut.cropped.shape[3] = opIn.M
        /\ opOut.cropped = opIn.x

\* C9: performshift(performshift(x, s, +1), s, -1) = x for every array x and
\* every integer shift vector s with one entry per slice.
C9_ShiftUnshiftIdentity ==
    opName = "performshift" => opOut.back = opIn.x

\* a shift that moved elements, with entries of both signs and one larger than
\* the slice, was undone
C9_ShiftedAndRestored ==
    /\ opName = "performshift"
    /\ opOut.shifted # opIn.x
    /\ \E ss \in DOMAIN opIn.shift : opIn.shift[ss] < 0
    /\ \E ss \in DOMAIN opIn.shift :
          opIn.shift[ss] > opIn.x.shape[1] * opIn.x.shape[3] * opIn.x.shape[4]
    /\ opOut.back = opIn.x

----------------------------------------------------------------------------
(* C10: the conjugate-gradient solver *)

\* the locals of conjgrad after n updates from its initial frame
RECURSIVE CGAfter(_, _)
CGAfter(s, n) == IF n = 0 THEN s ELSE CGUpdate(CGAfter(s, n - 1))

\* C10: conjgrad(A, b, x0, iterations) performs exactly `iterations` update
\* steps, whether or not the residual has vanished, and returns the x reached
\* after the last step; with iterations = 0 it returns x0.
C10_ExactlyIterationsSteps ==
    cg.pc = "returned" =>
        /\ cg.k = cg.ite
        /\ cg.result = cg.x
        /\ cg.result = CGAfter([cg EXCEPT !.x = cg.x0,
                                          !.r = Axpy(cg.b, QInt(-1), Apply(cg.A, cg.x0)),
                                          !.p = Axpy(cg.b, QInt(-1), Apply(cg.A, cg.x0)),
                                          !.k = 0], cg.ite).x
        /\ cg.ite = 0 => cg.result = cg.x0

\* the solver returned after stepping on although the residual had vanished
C10_SteppedPastConvergence ==
    /\ cg.pc = "returned"
    /\ cg.ite >= 2
    /\ cg.k = cg.ite
    /\ \E n \in 0..(cg.ite - 1) :
          LET s == CGAfter([cg EXCEPT !.x = cg.x0,
                                      !.r = Axpy(cg.b, QInt(-1), Apply(cg.A, cg.x0)),
                                      !.p = Axpy(cg.b, QInt(-1), Apply(cg.A, cg.x0)),
                                      !.k = 0], n)
          IN  Dot(s.r, s.r) = QInt(0)

----------------------------------------------------------------------------
(* C11 - C20 *)

\* C11: the number of conjugate-gradient iterations run by the SENSE
\* reconstruction and by the wave-SENSE reconstruction equals senseIterations,
\* whatever its value.
C11_IterationsAreConfigured ==
    cg.pc = "returned" /\ cg.call \in {"sense", "wave"} => cg.k = senseIterations

\* C12: applying the ACS replacement to its own result, with the same
\* measured ACS data and the same index window, gives the result of applying
\* it once.
C12_ReplacementIdempotent ==
    /\ pc = "image" =>
          AcsReplace(kspaceCorrectedReplaced, kspaceAcs, acsregionX, acsregionY, acsx, acsy)
             = kspaceCorrectedReplaced
    /\ pc = "waveimage" =>
          AcsReplace(kspaceCorrectedReplacedWave, kspaceWaveAcs, acsregionX, acsregionY, acsx, acsy)
             = kspaceCorrectedReplacedWave

\* a replacement that changed the corrected k-space, with nonzero measured
\* values, and that a second application leaves as it is
C12_ReplacedOnceAndAgain ==
    /\ pc = "image"
    /\ kspaceCorrectedReplaced # kspaceCorrected
    /\ \E t \in Idx(kspaceCorrected.shape) :
          /\ kspaceCorrectedReplaced.val[t] # kspaceCorrected.val[t]
          /\ kspaceCorrectedReplaced.val[t] = kspaceAcs.val[<<0>> \o t]
          /\ kspaceAcs.val[<<0>> \o t] # CInt(0, 0)
    /\ AcsReplace(kspaceCorrectedReplaced, kspaceAcs, acsregionX, acsregionY, acsx, acsy)
          = kspaceCorrectedReplaced

\* channel ch of `corrected` is the reconstructed k-space `sense` plus the
\* outputs of the channel's own models, each divided by the channel's stored
\* factor of that component
CorrectedByStoredFactors(corrected, sense, ch) ==
    LET X == sense.shape[3]
        Y == sense.shape[4]
        outr == SparkNetOutput(realSparkGrappaModels[ModelName(0, ch, "r")], X, Y)
        outi == SparkNetOutput(imagSparkGrappaModels[ModelName(0, ch, "i")], X, Y)
        sr == chan_scale_factors_real.val[<<0, ch>>]
        si == chan_scale_factors_imag.val[<<0, ch>>]
    IN  \A i \in 0..(X - 1), j \in 0..(Y - 1) :
            corrected.val[<<ch, i, j>>]
               = <<QAdd(sense.val[<<0, ch, i, j>>][1], QDiv(outr.val[<<i, j>>], sr)),
                   QAdd(sense.val[<<0, ch, i, j>>][2], QDiv(outi.val[<<i, j>>], si))>>

\* dividing channel ch's training targets by the stored factors gives back the
\* residual measured - reconstructed of the ACS window
TargetsDescale(sense, acs, ch) ==
    LET rows == CropWindow(acsregionX, acsx, sense.shape[3])
        cols == CropWindow(acsregionY, acsy, sense.shape[4])
        sr == chan_scale_factors_real.val[<<0, ch>>]
        si == chan_scale_factors_imag.val[<<0, ch>>]
    IN  \A t \in Idx(acs_difference_real.shape) :
            t[2] = ch =>
               LET u == <<0, ch, rows[t[5] + 1], cols[t[6] + 1]>>
                   v == CSub(acs.val[u], sense.val[u])
               IN  /\ QDiv(acs_difference_real.val[t], sr) = v[1]
                   /\ QDiv(acs_difference_imag.val[t], si) = v[2]

\* C13: for every channel c the corrected k-space is the un-normalized
\* reconstructed k-space of channel c plus real_output / chan_scale_factors_real[0,c]
\* plus i * imag_output / chan_scale_factors_imag[0,c], and dividing by these
\* stored factors undoes the scaling of that channel's training targets.
C13_DescaleByStoredFactors ==
    /\ pc \in {"correct", "image"} =>
          \A ch \in 0..(c - 1) :
              /\ CorrectedByStoredFactors(kspaceCorrected, kspaceSense, ch)
              /\ TargetsDescale(kspaceSense, kspaceAcs, ch)
    /\ pc \in {"wavecorrect", "waveimage"} =>
          \A ch \in 0..(c - 1) :
              /\ CorrectedByStoredFactors(kspaceCorrectedWave, kspaceWaveSpark, ch)
              /\ TargetsDescale(kspaceWaveSpark, kspaceWaveAcs, ch)

\* the model instances the two returned dictionaries hold
StoredModels(t) == {t.real_models[k] : k \in DOMAIN t.real_models} \cup {t.imag_models[k] : k \in DOMAIN t.imag_models}

\* C14: trainingSparkNetwork returns exactly E*C real and E*C imaginary
\* models, each a fresh instance with an optimizer of its own, stored under a
\* key that differs for every (contrast, channel, component); no instance is
\* stored twice, and every key the caller's correction loop looks up is there.
C14_OneModelPerTriple ==
    /\ tr.pc # "error"
    /\ tr.pc \in {"epoch", "forward", "loss", "backward", "step"} =>
          /\ tr.optimizer = tr.model
          /\ tr.model \notin StoredModels(tr)
    /\ tr.pc = "returned" =>
          /\ Cardinality(DOMAIN tr.real_models) = tr.E * tr.C
          /\ Cardinality(DOMAIN tr.imag_models) = tr.E * tr.C
          /\ Len(tr.real_model_names) = tr.E * tr.C
          /\ Len(tr.imag_model_names) = tr.E * tr.C
          /\ \A ei \in 0..(tr.E - 1), ci \in 0..(tr.C - 1) :
                /\ ModelName(ei, ci, "r") \in DOMAIN tr.real_models
                /\ ModelName(ei, ci, "i") \in DOMAIN tr.imag_models
                /\ tr.real_models[ModelName(ei, ci, "r")] # tr.imag_models[ModelName(ei, ci, "i")]
          /\ Cardinality(StoredModels(tr)) = 2 * tr.E * tr.C
          /\ Len(tr.stepsOf) = 2 * tr.E * tr.C

\* several contrasts and channels were trained and every lookup succeeded
C14_AllKeysLookedUp ==
    /\ tr.pc = "returned"
    /\ tr.E >= 2
    /\ tr.C >= 2
    /\ tr.look = tr.C

\* the operations of one finished epoch of the model of (e, c, comp)
EpochEvents(t) == <<Event("zero_grad", t), Event("forward", t), Event("loss", t), Event("backward", t), Event("step", t)>>

\* C15: every model receives exactly `iterations` optimizer steps, each epoch
\* being zero_grad, forward on the input of its contrast, loss against its own
\* (contrast, channel, component) target, backward, step, in that order; the
\* loss never ends the loop early, and the call has taken 2*E*C*iterations
\* steps when it returns.
C15_ExactlyIterationsEpochs ==
    /\ tr.pc = "epoch" /\ tr.epoch > 0 => tr.events = EpochEvents(tr)
    /\ tr.pc = "epoch" => tr.stepsOf[tr.model] = tr.epoch
    /\ tr.pc \in {"enter", "returned"} => \A id \in StoredModels(tr) : tr.stepsOf[id] = tr.iterations
    /\ tr.pc = "returned" =>
          /\ tr.steps = 2 * tr.E * tr.C * tr.iterations
          /\ \A id \in 1..Len(tr.stepsOf) : tr.stepsOf[id] = tr.iterations

\* a model that already fits its target is being trained for another epoch
C15_TrainedPastZeroLoss ==
    /\ tr.pc = "forward"
    /\ tr.epoch >= 1
    /\ tr.running_loss = 0
    /\ tr.comp = "i"
    /\ tr.e >= 1

\* every channel's pair of models is in the dictionaries
AllModelsTrained ==
    \A ch \in 0..(C - 1) :
        /\ ModelName(0, ch, "r") \in DOMAIN realSparkGrappaModels
        /\ ModelName(0, ch, "i") \in DOMAIN imagSparkGrappaModels

\* C16: the stages of an experiment run in a fixed order: the reformatter
\* runs on an existing baseline reconstruction, training follows the
\* reformatter, a channel is corrected only when all 2*C models are trained,
\* the ACS replacement comes after all C channels are corrected, and the final
\* image is computed from the ACS-replaced k-space.
C16_StagesInOrder ==
    [][/\ reformatVars' # reformatVars =>
             \/ pc = "reformat" /\ kspaceSense # NoArr /\ kspaceAcs # NoArr
             \/ pc = "wavereformat" /\ kspaceWaveSpark # NoArr /\ kspaceWaveAcs # NoArr
       /\ modelVars' # modelVars =>
             /\ pc \in {"train", "wavetrain"}
             /\ acs_difference_real # NoArr
             /\ acs_difference_imag # NoArr
       /\ kspaceCorrected' # kspaceCorrected /\ pc = "correct" => AllModelsTrained
       /\ kspaceCorrectedWave' # kspaceCorrectedWave /\ pc = "wavecorrect" => AllModelsTrained
       /\ kspaceCorrectedReplaced' # kspaceCorrectedReplaced =>
             /\ c = C
             /\ \A ch \in 0..(C - 1) : CorrectedByStoredFactors(kspaceCorrected, kspaceSense, ch)
       /\ kspaceCorrectedReplacedWave' # kspaceCorrectedReplacedWave =>
             /\ c = C
             /\ \A ch \in 0..(C - 1) : CorrectedByStoredFactors(kspaceCorrectedWave, kspaceWaveSpark, ch)
       /\ spark' # spark => kspaceCorrectedReplaced # NoArr /\ spark' = kspaceCorrectedReplaced
       /\ sparkWave' # sparkWave =>
             kspaceCorrectedReplacedWave # NoArr /\ sparkWave' = kspaceCorrectedReplacedWave
      ]_vars

\* a several-channel experiment ran to its image, and the replacement had
\* changed the corrected k-space
C16_ImageFromReplaced ==
    /\ pc = "wave"
    /\ C >= 2
    /\ spark = kspaceCorrectedReplaced
    /\ spark # kspaceCorrected

\* the reformatted arrays, the scale factors and the models in the global
\* names are the ones computed from the k-space pair (inp, orig)
BoundTo(inp, orig) ==
    LET r == reformattingKspaceForSpark(inp, orig, acsregionX, acsregionY, acsx, acsy,
                                        normalizationflag)
    IN  /\ kspace_grappa_split = r.kspace_grappa_split
        /\ acs_difference_real = r.acs_difference_real
        /\ acs_difference_imag = r.acs_difference_imag
        /\ chan_scale_factors_real = r.chan_scale_factors_real
        /\ chan_scale_factors_imag = r.chan_scale_factors_imag
        /\ \A ch \in 0..(C - 1) :
              /\ realSparkGrappaModels[ModelName(0, ch, "r")].target = r.acs_difference_real
              /\ imagSparkGrappaModels[ModelName(0, ch, "i")].target = r.acs_difference_imag

\* C17: although both experiments store their reformatted input, scale
\* factors and models in the same global names, each correction loop starts
\* with the ones computed from its own experiment's k-space, and they stay
\* as they are while the loop runs.
C17_NothingReusedAcrossExperiments ==
    [][/\ pc = "zeros" => BoundTo(kspaceSense, kspaceAcs)
       /\ pc = "wavezeros" => BoundTo(kspaceWaveSpark, kspaceWaveAcs)
       /\ pc = "correct" => UNCHANGED <<reformatVars, modelVars, kspaceSense, kspaceAcs, acsregionX, acsregionY, acsx>>
       /\ pc = "wavecorrect" => UNCHANGED <<reformatVars, modelVars, kspaceWaveSpark, kspaceWaveAcs, acsregionX, acsregionY, acsx>>
      ]_vars

\* the wave correction loop runs on targets that differ from the cartesian
\* experiment's
C17_WaveCorrectionOnOwnData ==
    /\ pc = "wavecorrect"
    /\ c >= 1
    /\ kspaceWaveSpark # kspaceSense
    /\ acs_difference_real # reformattingKspaceForSpark(kspaceSense, kspaceAcs, arange(0, M * numslices), acsregionY, M * numslices, acsy, normalizationflag).acs_difference_real

\* C18: mask and maskWave hold only 0 and 1 and have the shape of the k-space
\* they gate; the entry at (channel, x, y) is 1 exactly when x is a multiple
\* of numslices and y is a multiple of Ry, and the simulated k-space is zero
\* wherever the mask is 0.
C18_MaskGatesSimulatedKspace ==
    opName \in {"simulate", "simulateWave"} =>
        /\ \A t \in Idx(opOut.mask.shape) :
              /\ opOut.mask.val[t] \in {GZero, GInt(1, 0)}
              /\ opOut.mask.val[t] = GInt(1, 0)
                    <=> (t[2] % opIn.numslices = 0 /\ t[3] % opIn.Ry = 0)
        /\ opOut.err = "none" =>
              /\ opOut.mask.shape = opIn.gated.shape
              /\ opOut.kspace.shape = opOut.mask.shape
              /\ \A t \in Idx(opOut.mask.shape) :
                    opOut.kspace.val[t] = (IF opOut.mask.val[t] = GZero THEN GZero ELSE opIn.gated.val[t])

\* a wave acquisition undersampled along both axes whose mask removed a
\* nonzero sample and kept another
C18_SamplesGatedAway ==
    /\ opName = "simulateWave"
    /\ opOut.err = "none"
    /\ opIn.numslices >= 2
    /\ opIn.Ry >= 2
    /\ \E t \in Idx(opOut.mask.shape) : opOut.mask.val[t] = GZero /\ opIn.gated.val[t] # GZero
    /\ \E t \in Idx(opOut.mask.shape) : opOut.mask.val[t] = GInt(1, 0) /\ opOut.kspace.val[t] # GZero

\* C19: reformattingKspaceForSpark leaves both array arguments as they were:
\* after the call the caller's reconstructed k-space is still un-normalized
\* and the measured data still holds the measured values.
C19_ArgumentsUnchanged ==
    [][/\ pc = "reformat" =>
             /\ kspaceSense' = expand_dims0(squeeze(kspaceSense))
             /\ kspaceAcs' = expand_dims0(squeeze(kspaceAcs))
       /\ pc = "wavereformat" => UNCHANGED <<kspaceWaveSpark, kspaceWaveAcs>>
      ]_vars

\* the call returned after scaling the input and a channel's targets in place
\* by factors other than one
C19_ScaledInPlace ==
    /\ pc = "train"
    /\ normalizationflag = 1
    /\ \E ch \in 0..(C - 1) :
          /\ QFinite(chan_scale_factors_real.val[<<0, ch>>])
          /\ chan_scale_factors_real.val[<<0, ch>>] # QInt(1)
    /\ \E t \in Idx(kspaceSense.shape) : kspace_grappa_split.val[t] # kspaceSense.val[t][1]

\* C20: for every ACS size, odd or even, the index ranges acsregionX and
\* acsregionY hold exactly acsx and acsy consecutive indices, so the accesses
\* acsregionX[acsx-1] and acsregionY[acsy-1] of the crop are in range and the
\* cropped ACS block has acsx by acsy samples.
C20_RegionsHoldAcsIndices ==
    /\ pc \notin {"off", "acs"} =>
          /\ Len(acsregionX) = acsx
          /\ Len(acsregionY) = acsy
          /\ \A k \in 1..(Len(acsregionX) - 1) : acsregionX[k + 1] = acsregionX[k] + 1
          /\ \A k \in 1..(Len(acsregionY) - 1) : acsregionY[k + 1] = acsregionY[k] + 1
    /\ err # "IndexError"
    /\ pc \in {"train", "wavetrain"} =>
          /\ acs_difference_real.shape = <<1, C, 1, 1, acsx, acsy>>
          /\ acs_difference_imag.shape = <<1, C, 1, 1, acsx, acsy>>


============================================================================
